---- MODULE Spec2Model ----
(***************************************************************************)
(* Verification model of artineering-io/maya-coop.                         *)
(*                                                                         *)
(* Independent parts of the library are modelled, each with its own        *)
(* specification over the shared variable list:                            *)
(*   SpecEnv       the Maya.env installer (setup.py): parse, merge, write  *)
(*   SpecIndexer   the Attribute Editor control indexer (ae.py)            *)
(*   SpecWidgets   the ATTR_WIDGETS handle cache (ae.py)                   *)
(*   SpecList      flatten_list and enlist (list.py)                       *)
(*   SpecMath      clamp and saturate (lib.py)                             *)
(*   SpecString    to_camel_case and de_camelize (lib.py)                  *)
(*   SpecScheduler ae_update_schedule (scheduler.py)                       *)
(*   SpecSlider    RelativeSlider (qt.py)                                  *)
(*   SpecGroup     LabeledFieldSliderGroup (qt.py)                         *)
(*   SpecSetup     install and uninstall (setup.py)                        *)
(*   SpecUndo      the undo decorator (lib.py)                             *)
(*   SpecShelves   delete_shelves (shelves.py, lib.py)                     *)
(*                                                                         *)
(* Text is a sequence of symbols.  A symbol is either one of the characters*)
(* the code inspects ("=", " ", ":", ";", "|", a carriage return "\r", a   *)
(* decimal digit) or an opaque run of other characters ("a",               *)
(* "MAYA_SHELF_PATH"), which no operation of the code ever splits.         *)
(***************************************************************************)
EXTENDS Integers, Sequences, FiniteSets, TLC

VARIABLES
    \* ---- Maya.env installer (setup.py) ----
    localOS,              \* "win" | "linux" | "mac": decides the separator
    maya_env,             \* lines of the Maya.env file
    maya_tmp,             \* lines of the maya.tmp file next to it (<<>>: absent)
    new_variables,        \* _install_local: formatted variables to merge
    env_variables,        \* dict name -> list of values
    env_variables_order,  \* list of names in file order
    warnings,             \* cmds.warning calls of the last parse
    printed,              \* "already set" messages of the last merge
    pc,                   \* position inside _install_local
    runs,                 \* completed installs
    \* ---- AEControlIndexer (ae.py) ----
    host,                 \* the host UI and scene the indexer queries
    idx_pc,               \* "new" | "built" | "queried"
    has_index,            \* self.index was assigned by __init__
    self_index,           \* instance attribute index: type -> name -> widgets
    self_ui_ctrls,        \* instance attribute ui_ctrls
    ui_listed,            \* cmds.lsUI was called
    walked,               \* ui paths passed to index_ui_ctrls, in call order
    idx_log,              \* om.MGlobal.displayError messages
    idx_result,           \* return value of the last get_ctrls
    idx_query,            \* argument of the last get_ctrls
    idx_raised,           \* the last get_ctrls raised an exception
    \* ---- ATTR_WIDGETS cache (ae.py) ----
    ATTR_WIDGETS,         \* widget_name -> list of control handles
    live_ctrls,           \* controls that exist in the host
    last_widget,          \* widget_name of the last handler that ran
    wid_log,              \* LOG.error calls of the last handler
    edited,               \* the update that has just run: widget, list and live controls before, controls edited
    \* ---- list library (list.py) ----
    raw_list,             \* argument of the call
    list_result,          \* its return value
    list_pc,              \* "arg" | the function that ran
    \* ---- math (lib.py) ----
    math_args,            \* [min_v, max_v, value]
    math_result,          \* return value of the call
    math_pc,              \* "arg" | the function that ran
    \* ---- string (lib.py) ----
    str_text,             \* argument text of the call, a sequence of characters
    str_result,           \* its return value
    str_pc,               \* "arg" | the function that ran
    \* ---- scheduler.py ----
    AE_UPDATE_SCHEDULED,  \* the module global
    deferred,             \* the host's queue of deferred commands
    sched_calls,          \* ae_update_schedule calls of the current burst
    sched_refreshed,      \* refreshEditorTemplates runs for the current burst
    sched_idle,           \* the host has been idle since the last call
    \* ---- RelativeSlider (qt.py) ----
    sl_value,             \* QSlider value
    prevValue,            \* self.prevValue
    sl_now,               \* time.time(), in timer periods of 0.01 s
    sl_threads,           \* slide_back calls: pending timers and running calls
    sl_blocked,           \* QObject.signalsBlocked
    \* ---- LabeledFieldSliderGroup (qt.py) ----
    sg_pc,                \* "off" | "new" | "built": the group was constructed
    group,                \* self: min, max, soft_min, soft_max, internalValue,
                          \* field, slider, and the LOG.warning calls of the
                          \* last call
    setup_log,            \* messages and dialogs of the last call, in order
    setup_raised,         \* the last call raised an exception
    module_where,         \* "user" | "all": how the module is installed
    mod_files,            \* .mod files in the all-users module directory
    setup_call,           \* the last install / uninstall call and its arguments
    \* ---- shelves (shelves.py, lib.py) ----
    shelf_files,          \* files in <env_dir>/prefs/shelves
    shelf_ui,             \* shelf layouts that exist in the host
    shelf_raised,         \* the last delete_shelves raised an exception
    shelf_call,           \* the last shelf call: function, shelves, files before it
    \* ---- undo decorator (lib.py) ----
    undo_log,             \* cmds.undoInfo calls, in order
    undo_stack,           \* wrapped calls in progress, innermost last
    undo_returned         \* what the last finished wrapper returned

envVars == <<localOS, maya_env, maya_tmp, new_variables, env_variables,
             env_variables_order, warnings, printed, pc, runs>>
idxVars == <<host, idx_pc, has_index, self_index, self_ui_ctrls, ui_listed,
             walked, idx_log, idx_result, idx_query, idx_raised>>
widVars == <<ATTR_WIDGETS, live_ctrls, last_widget, wid_log, edited>>
lstVars == <<raw_list, list_result, list_pc>>
mathVars == <<math_args, math_result, math_pc>>
strVars == <<str_text, str_result, str_pc>>
schedVars == <<AE_UPDATE_SCHEDULED, deferred, sched_calls, sched_refreshed,
               sched_idle>>
sliderVars == <<sl_value, prevValue, sl_now, sl_threads, sl_blocked>>
groupVars == <<sg_pc, group>>
setupVars == <<setup_log, setup_raised, module_where, mod_files, setup_call>>
shelfVars == <<shelf_files, shelf_ui, shelf_raised, shelf_call>>
undoVars == <<undo_log, undo_stack, undo_returned>>
libVars == <<lstVars, mathVars, strVars, schedVars, sliderVars, groupVars, setupVars,
             shelfVars, undoVars>>
vars == <<envVars, idxVars, widVars, libVars>>

(***************************************************************************)
(* Bounds                                                                  *)
(***************************************************************************)
MaxLines == 2      \* lines of the initial Maya.env
MaxRuns == 2       \* installs in a row
MaxPaths == 3      \* control layouts the host lists

(***************************************************************************)
(* Text helpers (Python str methods used by the code)                      *)
(***************************************************************************)
EmptyStr == <<>>

RECURSIVE Find(_, _, _)
\* str.find(ch, start) for a one-symbol needle; positions are 1-based, 0 = not found
Find(s, ch, from) ==
    IF from > Len(s) THEN 0
    ELSE IF s[from] = ch THEN from
    ELSE Find(s, ch, from + 1)

RECURSIVE Split(_, _)
\* str.split(ch): every piece between occurrences, empty pieces included
Split(s, ch) ==
    LET i == Find(s, ch, 1)
    IN  IF i = 0 THEN <<s>>
        ELSE <<SubSeq(s, 1, i - 1)>> \o Split(SubSeq(s, i + 1, Len(s)), ch)

\* filter(None, list_of_strings)
FilterNone(list) == SelectSeq(list, LAMBDA x : x # EmptyStr)

\* str.replace(ch, "")
Remove(s, ch) == SelectSeq(s, LAMBDA x : x # ch)

RECURSIVE LStrip(_)
LStrip(s) == IF s # <<>> /\ Head(s) = " " THEN LStrip(Tail(s)) ELSE s

RECURSIVE RStrip(_)
RStrip(s) ==
    IF s # <<>> /\ s[Len(s)] = " " THEN RStrip(SubSeq(s, 1, Len(s) - 1)) ELSE s

\* str.strip(' ')
Strip(s) == RStrip(LStrip(s))

Digits == {"0", "1", "2", "3", "4", "5", "6", "7", "8", "9"}

RECURSIVE DropZeros(_)
DropZeros(s) == IF Len(s) > 1 /\ Head(s) = "0" THEN DropZeros(Tail(s)) ELSE s

\* int(val) succeeds: optional blanks around a non-empty run of digits
IsInt(s) ==
    LET t == Strip(s)
    IN  t # <<>> /\ \A i \in 1..Len(t) : t[i] \in Digits

\* A stored value: an int (kept as its canonical decimal text, which is what
\* str() gives back) or a str.
IntValue(s) == [int |-> TRUE, s |-> DropZeros(Strip(s))]
StrValue(s) == [int |-> FALSE, s |-> s]

\* "{}".format(value)
FormatValue(v) == v.s

\* "".join(parts)
RECURSIVE Concat(_)
Concat(parts) == IF parts = <<>> THEN <<>> ELSE Head(parts) \o Concat(Tail(parts))

\* x in list
Contains(list, x) == \E i \in 1..Len(list) : list[i] = x

\* list.remove(x): drops the first occurrence
RemoveFirst(list, x) ==
    LET i == CHOOSE j \in 1..Len(list) :
                 list[j] = x /\ \A k \in 1..(j - 1) : list[k] # x
    IN  SubSeq(list, 1, i - 1) \o SubSeq(list, i + 1, Len(list))

\* d[k] = v on a dict
Put(d, k, v) == [x \in DOMAIN d \cup {k} |-> IF x = k THEN v ELSE d[x]]

\* d.pop(k)
Pop(d, k) == [x \in DOMAIN d \ {k} |-> d[x]]

EmptyDict == [x \in {} |-> <<>>]

(***************************************************************************)
(* Maya.env installer                                                      *)
(***************************************************************************)
\* the separator between the values of a variable
sep == IF localOS = "win" THEN ";" ELSE ":"

shelf_variable == <<"MAYA_SHELF_PATH">>
MAYA_MODULE_PATH == <<"MAYA_MODULE_PATH">>

\* lines 181-187: strip the line ends, split at "=", or else at blanks
Breakdown(line) ==
    LET l == Remove(Remove(line, "\n"), "\r")
        b == Split(l, "=")
    IN  IF Len(b) = 1 THEN FilterNone(Split(l, " ")) ELSE b

\* lines 196-204: the values of a variable, ints converted, strs stripped
StoredValues(text) ==
    LET values == FilterNone(Split(text, sep))
    IN  [i \in 1..Len(values) |->
            IF IsInt(values[i]) THEN IntValue(values[i])
            ELSE StrValue(Strip(values[i]))]

\* one iteration of the loop over the lines of the file
ParseLine(line, acc) ==
    LET breakdown == Breakdown(line)
    IN  IF Len(breakdown) # 2
        THEN IF breakdown = <<>>
             THEN [acc EXCEPT !.warnings = Append(@, "empty")]
             ELSE [acc EXCEPT !.warnings = Append(@, "unrecognizable")]
        ELSE LET var_name == Strip(breakdown[1])
             IN  [acc EXCEPT
                    !.vars = Put(@, var_name, StoredValues(breakdown[2])),
                    !.order = Append(@, var_name)]

RECURSIVE ParseFromBreak(_, _, _)
\* a parser that gives up at the first line it does not recognize
ParseFromBreak(lines, i, acc) ==
    IF i > Len(lines) \/ Len(Breakdown(lines[i])) # 2 THEN acc
    ELSE ParseFromBreak(lines, i + 1, ParseLine(lines[i], acc))

RECURSIVE ParseFrom(_, _, _)
ParseFrom(lines, i, acc) ==
    IF i > Len(lines) THEN acc
    ELSE ParseFrom(lines, i + 1, ParseLine(lines[i], acc))

_parse_environment_variables(lines) ==
    ParseFrom(lines, 1, [vars |-> EmptyDict, order |-> <<>>, warnings |-> <<>>])

RECURSIVE MergeValuesAppend(_, _, _)
\* a merge that adds a new value behind the installed ones
MergeValuesAppend(var, values, acc) ==
    IF values = <<>> THEN acc
    ELSE LET var_value == Head(values)
         IN  IF Contains(acc.vars[var], var_value)
             THEN MergeValuesAppend(var, Tail(values),
                      [acc EXCEPT !.printed = Append(@, <<var, var_value>>)])
             ELSE MergeValuesAppend(var, Tail(values),
                      [acc EXCEPT !.vars[var] = Append(@, var_value)])

RECURSIVE MergeValuesAlways(_, _, _)
\* a merge that does not look whether the value is there already
MergeValuesAlways(var, values, acc) ==
    IF values = <<>> THEN acc
    ELSE MergeValuesAlways(var, Tail(values),
             [acc EXCEPT !.vars[var] = <<Head(values)>> \o @])

RECURSIVE MergeValues(_, _, _)
\* lines 234-240: every value of an existing variable, inserted in front
\* unless it is there already
MergeValues(var, values, acc) ==
    IF values = <<>> THEN acc
    ELSE LET var_value == Head(values)
         IN  IF Contains(acc.vars[var], var_value)
             THEN MergeValues(var, Tail(values),
                      [acc EXCEPT !.printed = Append(@, <<var, var_value>>)])
             ELSE MergeValues(var, Tail(values),
                      [acc EXCEPT !.vars[var] = <<var_value>> \o @])

RECURSIVE MergeFrom(_, _, _)
\* lines 227-240: new_variables is walked in the order of the dict
MergeFrom(new, i, acc) ==
    IF i > Len(new) THEN acc
    ELSE LET var == new[i].var
         IN  IF var \notin DOMAIN acc.vars
             THEN MergeFrom(new, i + 1,
                      [acc EXCEPT !.vars = Put(@, var, new[i].values),
                                  !.order = Append(@, var)])
             ELSE MergeFrom(new, i + 1, MergeValues(var, new[i].values, acc))

_merge_variables(new, variables, order) ==
    MergeFrom(new, 1, [vars |-> variables, order |-> order, printed |-> <<>>])

\* lines 257-261; the "\n" that ends the line is the line break of the file
format_variable(variable, values) ==
    LET line == variable \o <<"=">> \o
                Concat([i \in 1..Len(values) |-> FormatValue(values[i]) \o <<sep>>])
    IN  SubSeq(line, 1, Len(line) - 1)

RECURSIVE WriteFrom(_, _, _, _)
\* lines 273-278
WriteFrom(order, i, variables, out) ==
    IF i > Len(order) THEN out
    ELSE LET var == order[i]
         IN  IF var \in DOMAIN variables /\ variables[var] # <<>>
             THEN WriteFrom(order, i + 1, variables,
                            Append(out, format_variable(var, variables[var])))
             ELSE WriteFrom(order, i + 1, variables, out)

\* a writer that leaves MAYA_SHELF_PATH at its place in the order
WriteInOrder(content, variables, variables_order) ==
    [file |-> WriteFrom(variables_order, 1, variables, content),
     vars |-> variables, order |-> variables_order]

\* the file is opened in append mode: `content` is what it held before.
\* variables.pop and variables_order.remove act on the caller's objects.
_write_variables(content, variables, variables_order) ==
    LET shelf_first == shelf_variable \in DOMAIN variables
                       /\ variables[shelf_variable] # <<>>
        order1 == IF shelf_first /\ Contains(variables_order, shelf_variable)
                  THEN RemoveFirst(variables_order, shelf_variable)
                  ELSE variables_order
        vars1 == IF shelf_first THEN Pop(variables, shelf_variable) ELSE variables
        out1 == IF shelf_first
                THEN Append(content,
                            format_variable(shelf_variable, variables[shelf_variable]))
                ELSE content
    IN  [file |-> WriteFrom(order1, 1, vars1, out1), vars |-> vars1, order |-> order1]

\* os.path.abspath: an absolute path is kept, a relative one is joined to
\* the working directory
cwd == <<"/", "cwd">>
abspath(path) == IF path # <<>> /\ Head(path) = "/" THEN path ELSE cwd \o <<"/">> \o path

\* lines 156-163 (the values become str paths)
_fmt_variables(variables) ==
    [i \in 1..Len(variables) |->
        [var |-> variables[i].var,
         values |-> [j \in 1..Len(variables[i].values) |->
                        StrValue(abspath(variables[i].values[j]))]]]

HasKey(variables, k) == \E i \in 1..Len(variables) : variables[i].var = k
KeyIndex(variables, k) == CHOOSE i \in 1..Len(variables) : variables[i].var = k

\* lines 291-294: the install directory is added to MAYA_MODULE_PATH
AddModulePath(variables, install_dir) ==
    IF HasKey(variables, MAYA_MODULE_PATH)
    THEN [variables EXCEPT ![KeyIndex(variables, MAYA_MODULE_PATH)].values =
                               Append(@, install_dir)]
    ELSE Append(variables, [var |-> MAYA_MODULE_PATH, values |-> <<install_dir>>])

\* ---- the inputs ----
\* Maya.env lines a user's file may hold
EnvLines == {
    <<"MAYA_MODULE_PATH", "=", "/", "a", ":", "/", "b">>,
    <<"MAYA_SHELF_PATH", "=", "/", "s">>,
    <<"X", " ", "=", " ", "0", "7", " ", ";", "/", "a", "\r">>,
    <<>>,
    <<"X", " ", "/", "a">>,
    <<"X", "=", "/", "a", "=", "/", "b">>,
    <<"X", "=", " ">>,
    <<"MAYA_SHELF_PATH", "=">> }

EnvFiles == UNION {[1..n -> EnvLines] : n \in 0..MaxLines}

\* what an interrupted earlier run may have left in maya.tmp
StaleTmp == {<<>>, << <<"OLD", "=", "/", "o">> >>}

\* env_variables arguments of install() (a dict, in its iteration order)
EnvVariableArgs == {
    <<>>,
    <<[var |-> <<"X">>, values |-> << <<"d">> >>]>>,
    <<[var |-> MAYA_MODULE_PATH, values |-> << <<"/", "e">> >>]>> }

InstallDirs == {<<"/", "c">>, <<"/", "a">>, <<"/", "c", "=", "d">>}

\* ---- the other parts at rest ----
\* no _plain_attr_widget_update has just run
NoUpdate == [widget |-> "none", before |-> <<>>, live |-> {}, ctrls |-> <<>>]

NoHost == [exists |-> FALSE, ui_paths |-> <<>>,
           window_title |-> <<>>, ae_tab |-> <<>>, pp_tab |-> <<>>]

NoResult == [none |-> TRUE, value |-> EmptyDict]

IdxAtRest ==
    /\ host = NoHost
    /\ idx_pc = "off"
    /\ has_index = FALSE
    /\ self_index = EmptyDict
    /\ self_ui_ctrls = <<>>
    /\ ui_listed = FALSE
    /\ walked = <<>>
    /\ idx_log = <<>>
    /\ idx_result = NoResult
    /\ idx_query = <<>>
    /\ idx_raised = FALSE

WidAtRest ==
    /\ ATTR_WIDGETS = EmptyDict
    /\ live_ctrls = {}
    /\ last_widget = "none"
    /\ wid_log = <<>>
    /\ edited = NoUpdate

EnvAtRest ==
    /\ localOS = "linux"
    /\ maya_env = <<>>
    /\ maya_tmp = <<>>
    /\ new_variables = <<>>
    /\ env_variables = EmptyDict
    /\ env_variables_order = <<>>
    /\ warnings = <<>>
    /\ printed = <<>>
    /\ pc = "off"
    /\ runs = 0

LstAtRest ==
    /\ raw_list = <<>>
    /\ list_result = <<>>
    /\ list_pc = "off"

MathAtRest ==
    /\ math_args = <<>>
    /\ math_result = 0
    /\ math_pc = "off"

StrAtRest ==
    /\ str_text = <<>>
    /\ str_result = <<>>
    /\ str_pc = "off"

SchedAtRest ==
    /\ AE_UPDATE_SCHEDULED = FALSE
    /\ deferred = <<>>
    /\ sched_calls = 0
    /\ sched_refreshed = 0
    /\ sched_idle = TRUE

\* no hard limit (minv=None, maxv=None)
NoLimit == [none |-> TRUE, v |-> 0]

\* a QSlider as Qt constructs it
NewSlider == [minimum |-> 0, maximum |-> 99, value |-> 0]

NoGroup == [min |-> NoLimit, max |-> NoLimit, soft_min |-> 0, soft_max |-> 0,
            internalValue |-> 0, field |-> 0, slider |-> NewSlider,
            log |-> <<>>]

GroupAtRest ==
    /\ sg_pc = "off"
    /\ group = NoGroup

SliderAtRest ==
    /\ sl_value = 0
    /\ prevValue = 0
    /\ sl_now = 0
    /\ sl_threads = <<>>
    /\ sl_blocked = FALSE

SetupAtRest ==
    /\ setup_log = <<>>
    /\ setup_raised = FALSE
    /\ module_where = "user"
    /\ mod_files = {}
    /\ setup_call = [f |-> "none", install_dir |-> <<>>, all_users |-> FALSE,
                     env_variables |-> [none |-> TRUE, value |-> <<>>],
                     reinstall |-> FALSE, background |-> FALSE, per_user |-> FALSE,
                      reply |-> "none", env_before |-> <<>>, tmp_before |-> <<>>,
                      after_install |-> FALSE, env_installed |-> <<>>]

ShelfAtRest ==
    /\ shelf_files = {}
    /\ shelf_ui = {}
    /\ shelf_raised = FALSE
    /\ shelf_call = [f |-> "none", names |-> <<>>, before |-> {}, dialog |-> FALSE]

UndoAtRest ==
    /\ undo_log = <<>>
    /\ undo_stack = <<>>
    /\ undo_returned = "off"

LibAtRest ==
    /\ LstAtRest
    /\ MathAtRest
    /\ StrAtRest
    /\ SchedAtRest
    /\ SliderAtRest /\ GroupAtRest
    /\ SetupAtRest
    /\ ShelfAtRest
    /\ UndoAtRest

coreVars == <<envVars, idxVars, widVars>>

CoreAtRest ==
    /\ EnvAtRest
    /\ IdxAtRest
    /\ WidAtRest

\* ---- _install_local, one step per call it makes ----
InitEnv ==
    /\ localOS \in {"win", "linux"}
    /\ maya_env \in EnvFiles
    /\ maya_tmp \in StaleTmp
    /\ new_variables = <<>>
    /\ env_variables = EmptyDict
    /\ env_variables_order = <<>>
    /\ warnings = <<>>
    /\ printed = <<>>
    /\ pc = "idle"
    /\ runs = 0
    /\ IdxAtRest
    /\ WidAtRest
    /\ LibAtRest

\* lines 291-296
InstallLocal ==
    /\ pc = "idle"
    /\ runs < MaxRuns
    /\ \E arg \in EnvVariableArgs, install_dir \in InstallDirs :
          new_variables' = _fmt_variables(AddModulePath(arg, install_dir))
    /\ pc' = "formatted"
    /\ UNCHANGED <<localOS, maya_env, maya_tmp, env_variables, env_variables_order,
                   warnings, printed, runs>>
    /\ UNCHANGED <<idxVars, widVars, libVars>>

\* line 300
ParseEnv ==
    /\ pc = "formatted"
    /\ LET r == _parse_environment_variables(maya_env)
       IN  /\ env_variables' = r.vars
           /\ env_variables_order' = r.order
           /\ warnings' = r.warnings
    /\ pc' = "parsed"
    /\ UNCHANGED <<localOS, maya_env, maya_tmp, new_variables, printed, runs>>
    /\ UNCHANGED <<idxVars, widVars, libVars>>

\* line 301
MergeEnv ==
    /\ pc = "parsed"
    /\ LET r == _merge_variables(new_variables, env_variables, env_variables_order)
       IN  /\ env_variables' = r.vars
           /\ env_variables_order' = r.order
           /\ printed' = r.printed
    /\ pc' = "merged"
    /\ UNCHANGED <<localOS, maya_env, maya_tmp, new_variables, warnings, runs>>
    /\ UNCHANGED <<idxVars, widVars, libVars>>

\* lines 304-305
WriteEnv ==
    /\ pc = "merged"
    /\ LET r == _write_variables(maya_tmp, env_variables, env_variables_order)
       IN  /\ maya_tmp' = r.file
           /\ env_variables' = r.vars
           /\ env_variables_order' = r.order
    /\ pc' = "written"
    /\ UNCHANGED <<localOS, maya_env, new_variables, warnings, printed, runs>>
    /\ UNCHANGED <<idxVars, widVars, libVars>>

\* line 308: shutil.move(maya.tmp, Maya.env)
MoveEnv ==
    /\ pc = "written"
    /\ maya_env' = maya_tmp
    /\ maya_tmp' = <<>>
    /\ pc' = "idle"
    /\ runs' = runs + 1
    /\ UNCHANGED <<localOS, new_variables, env_variables, env_variables_order,
                   warnings, printed>>
    /\ UNCHANGED <<idxVars, widVars, libVars>>

NextEnv == InstallLocal \/ ParseEnv \/ MergeEnv \/ WriteEnv \/ MoveEnv

SpecEnv == InitEnv /\ [][NextEnv]_vars

(***************************************************************************)
(* Claims about the Maya.env installer                                     *)
(***************************************************************************)
IsPrefix(s, t) == Len(s) <= Len(t) /\ SubSeq(t, 1, Len(s)) = s
IsSuffix(s, t) == Len(s) <= Len(t) /\ SubSeq(t, Len(t) - Len(s) + 1, Len(t)) = s

MergeStep == pc = "parsed" /\ pc' = "merged"
WriteStep == pc = "merged" /\ pc' = "written"

\* C1: _merge_variables inserts a new value of an existing variable at index
\* 0: [a,b] and c give [c,a,b]; the values already there keep their order
\* behind it, every variable that is not merged keeps its list, and no
\* position of the key order changes.
C1_FrontInsertion ==
    [][MergeStep =>
        /\ \A i \in 1..Len(new_variables) :
              LET var == new_variables[i].var
                  vals == new_variables[i].values
              IN  var \in DOMAIN env_variables =>
                    /\ IsSuffix(env_variables[var], env_variables'[var])
                    /\ (Len(vals) = 1 /\ ~Contains(env_variables[var], vals[1])) =>
                          env_variables'[var] = <<vals[1]>> \o env_variables[var]
        /\ \A k \in DOMAIN env_variables :
              ~HasKey(new_variables, k) =>
                    k \in DOMAIN env_variables' /\ env_variables'[k] = env_variables[k]
        /\ IsPrefix(env_variables_order, env_variables_order')
        /\ (\A i \in 1..Len(new_variables) :
                new_variables[i].var \in DOMAIN env_variables) =>
              env_variables_order' = env_variables_order
    ]_vars

\* C1 witness: MAYA_MODULE_PATH held [/a,/b] and /c was merged in front.
C1_Witness ==
    /\ pc = "merged"
    /\ MAYA_MODULE_PATH \in DOMAIN env_variables
    /\ env_variables[MAYA_MODULE_PATH] =
          <<StrValue(<<"/", "c">>), StrValue(<<"/", "a">>), StrValue(<<"/", "b">>)>>

\* C2: merging the same new variables again changes nothing: in the merged
\* table every new value is present, and a second _merge_variables returns
\* the same table and the same key order.
C2_RemergeNoOp ==
    pc = "merged" =>
        LET r == _merge_variables(new_variables, env_variables, env_variables_order)
        IN  r.vars = env_variables /\ r.order = env_variables_order

\* C2 witness: a merge that met a value already installed, after an install
\* that created MAYA_MODULE_PATH.
C2_Witness ==
    /\ pc = "merged"
    /\ printed # <<>>
    /\ runs = 1

\* the name in front of the "=" of a written line
LineKey(line) == SubSeq(line, 1, Find(line, "=", 1) - 1)

\* the keys _write_variables has to write, in the order of the file
ExpectedKeys(variables, order) ==
    (IF shelf_variable \in DOMAIN variables /\ variables[shelf_variable] # <<>>
     THEN <<shelf_variable>> ELSE <<>>)
    \o SelectSeq(order, LAMBDA k : /\ k # shelf_variable
                                   /\ k \in DOMAIN variables
                                   /\ variables[k] # <<>>)

\* C3: _write_variables writes one line per variable in the key order, with
\* MAYA_SHELF_PATH (when it has values) as the first line it writes and
\* nowhere else, and no line for a variable without values.
C3_WriteKeepsOrder ==
    [][WriteStep =>
        LET written == SubSeq(maya_tmp', Len(maya_tmp) + 1, Len(maya_tmp'))
            keys == [i \in 1..Len(written) |-> LineKey(written[i])]
        IN  /\ IsPrefix(maya_tmp, maya_tmp')
            /\ keys = ExpectedKeys(env_variables, env_variables_order)
            /\ \A i \in 1..Len(keys) :
                  /\ env_variables[keys[i]] # <<>>
                  /\ keys[i] = shelf_variable => i = 1
    ]_vars

\* C3 witness: MAYA_SHELF_PATH stood behind another variable in Maya.env and
\* heads the rewritten file.
C3_Witness ==
    /\ pc = "written"
    /\ Len(maya_tmp) >= 2
    /\ LineKey(maya_tmp[1]) = shelf_variable
    /\ Len(maya_env) = 2
    /\ Breakdown(maya_env[1]) # <<>>
    /\ Breakdown(maya_env[2]) # <<>>
    /\ Strip(Breakdown(maya_env[2])[1]) = shelf_variable
    /\ Strip(Breakdown(maya_env[1])[1]) = MAYA_MODULE_PATH

\* C4: parsing what _write_variables wrote gives back the table: the same
\* names in the written order, each with the same values.
C4_RoundTrip ==
    (pc = "merged" /\ \A k \in DOMAIN env_variables : env_variables[k] # <<>>) =>
        LET w == _write_variables(<<>>, env_variables, env_variables_order)
            p == _parse_environment_variables(w.file)
        IN  /\ p.order = ExpectedKeys(env_variables, env_variables_order)
            /\ \A k \in DOMAIN env_variables :
                  k \in DOMAIN p.vars /\ p.vars[k] = env_variables[k]

\* ---- how a line of Maya.env reads, stated on the line itself ----
CleanLine(line) == SelectSeq(line, LAMBDA x : x \notin {"\n", "\r"})
CountEquals(line) == Len(SelectSeq(line, LAMBDA x : x = "="))
\* the blank-separated tokens of a line start where a non-blank follows a
\* blank or the start of the line
TokenStarts(line) ==
    {i \in 1..Len(line) : line[i] # " " /\ (i = 1 \/ line[i - 1] = " ")}
WellFormed(line) ==
    LET l == CleanLine(line)
    IN  CountEquals(l) = 1 \/ (CountEquals(l) = 0 /\ Cardinality(TokenStarts(l)) = 2)
BlankLine(line) ==
    LET l == CleanLine(line)
    IN  CountEquals(l) = 0 /\ TokenStarts(l) = {}
\* the name a well-formed line gives its variable
NameOf(line) ==
    LET l == CleanLine(line)
    IN  IF CountEquals(l) = 1 THEN Strip(SubSeq(l, 1, Find(l, "=", 1) - 1))
        ELSE LET a == CHOOSE i \in TokenStarts(l) : \A j \in TokenStarts(l) : i <= j
                 stop == Find(l, " ", a)
             IN  SubSeq(l, a, stop - 1)
\* the text a well-formed line gives as value
ValueTextOf(line) ==
    LET l == CleanLine(line)
    IN  IF CountEquals(l) = 1 THEN SubSeq(l, Find(l, "=", 1) + 1, Len(l))
        ELSE LET b == CHOOSE i \in TokenStarts(l) : \A j \in TokenStarts(l) : j <= i
             IN  Strip(SubSeq(l, b, Len(l)))

\* C5: the parser handles every line of the file: a blank line gives the
\* empty-line warning, a line that is neither KEY=value nor two blank-separated
\* tokens gives the unrecognizable warning, and every well-formed line before
\* or after them is in the table, in file order, with the values of the last
\* line of its name.
C5_ParseSkipsMalformed ==
    pc = "parsed" =>
        LET good == SelectSeq(maya_env, WellFormed)
            bad == SelectSeq(maya_env, LAMBDA l : ~WellFormed(l))
        IN  /\ env_variables_order = [i \in 1..Len(good) |-> NameOf(good[i])]
            /\ warnings = [i \in 1..Len(bad) |->
                              IF BlankLine(bad[i]) THEN "empty" ELSE "unrecognizable"]
            /\ DOMAIN env_variables = {NameOf(good[i]) : i \in 1..Len(good)}
            /\ \A i \in 1..Len(good) :
                  (\A j \in (i + 1)..Len(good) : NameOf(good[j]) # NameOf(good[i])) =>
                      env_variables[NameOf(good[i])] = StoredValues(ValueTextOf(good[i]))

\* C5 witness: a file whose first line is malformed and whose second line is
\* a variable, which the parser stored.
C5_Witness ==
    /\ pc = "parsed"
    /\ Len(maya_env) = 2
    /\ ~WellFormed(maya_env[1])
    /\ ~BlankLine(maya_env[1])
    /\ WellFormed(maya_env[2])
    /\ env_variables_order = <<MAYA_MODULE_PATH>>
    /\ warnings = <<"unrecognizable">>

(***************************************************************************)
(* AEControlIndexer                                                        *)
(***************************************************************************)
\* s[i..] starts with needle
MatchAt(s, needle, i) ==
    /\ i >= 1
    /\ i + Len(needle) - 1 <= Len(s)
    /\ SubSeq(s, i, i + Len(needle) - 1) = needle

\* str.find(needle): first position (1-based), 0 when there is none
FindSeq(s, needle) ==
    IF \E i \in 1..Len(s) : MatchAt(s, needle, i)
    THEN CHOOSE i \in 1..Len(s) :
             MatchAt(s, needle, i) /\ \A j \in 1..(i - 1) : ~MatchAt(s, needle, j)
    ELSE 0

\* str.rfind(needle): last position (1-based), 0 when there is none
RFindSeq(s, needle) ==
    IF \E i \in 1..Len(s) : MatchAt(s, needle, i)
    THEN CHOOSE i \in 1..Len(s) :
             MatchAt(s, needle, i) /\ \A j \in (i + 1)..Len(s) : ~MatchAt(s, needle, j)
    ELSE 0

\* needle in s
In(needle, s) == FindSeq(s, needle) # 0

\* s.startswith(prefix)
StartsWith(s, prefix) == MatchAt(s, prefix, 1)

\* ---- the host: its scene, its open UI ----
node_type == <<"lambert">>         \* cmds.objectType of the node
NodeNames == {<<"lambert1">>, <<"phong1">>}

\* control layouts the host may list (cmds.lsUI long names) and the
\* accessible name of the widget of each
UIControls == {
    [path |-> <<"AttributeEditor", "|", "AE", "lambert", "Template", "|",
                "frameLayout", "1">>, name |-> "Common"],
    [path |-> <<"AttributeEditor", "|", "AE", "lambert", "Template", "|",
                "frameLayout", "1", "|", "checkBox", "Grp", "2">>, name |-> "Flip"],
    [path |-> <<"window", "1", "|", "AE", "lambert", "Template", "|",
                "frameLayout", "3">>, name |-> "Common"],
    [path |-> <<"hyperShadePanel", "1", "|", "lambert", "|",
                "frameLayout", "4">>, name |-> "Common"],
    [path |-> <<"AttributeEditor", "|", "AE", "lambert", "Template", "|",
                "x", "frameLayout", "5">>, name |-> "Extra"],
    [path |-> <<"AttributeEditor", "|", "AE", "phong", "Template", "|",
                "frameLayout", "6">>, name |-> "Common"] }

UIPaths == {c.path : c \in UIControls}

\* QWidget.accessibleName() of the widget wrapped for a path
accessibleName(widget) == (CHOOSE c \in UIControls : c.path = widget).name

\* the control types a caller asks for: a single name or a list
CtrlArgs == {
    [is_str |-> TRUE, v |-> <<"frameLayout">>],
    [is_str |-> FALSE, v |-> << <<"frameLayout">>, <<"checkBox">> >>],
    [is_str |-> FALSE, v |-> << <<"checkBox", "Grp">>, <<"frameLayout">> >>] }

CtrlTypes == {<<"frameLayout">>, <<"checkBox">>, <<"checkBox", "Grp">>}

None == [none |-> TRUE, value |-> <<>>]
Some(x) == [none |-> FALSE, value |-> x]

\* qt.wrap_ctrl: the widget of a control or layout of the host, None when the
\* host has no such control; a widget is identified by the path it wraps
wrap_ctrl(h, qt_ctrl) ==
    IF Contains(h.ui_paths, qt_ctrl) THEN Some(qt_ctrl) ELSE None

\* lib.u_enlist
u_enlist(arg) == IF arg.is_str THEN <<arg.v>> ELSE arg.v

\* lines 567-574
is_ui_ctrl(h, ui_path, ui_ctrl, widget) ==
    LET idx == RFindSeq(ui_path, <<"|">> \o ui_ctrl)
    IN  IF idx # 0
        THEN LET r_idx == Find(ui_path, "|", idx + 1)
             IN  IF r_idx = 0
                 THEN IF widget THEN wrap_ctrl(h, ui_path) ELSE Some(ui_path)
                 ELSE None
        ELSE None

\* lines 551-554 with a store that replaces what the name held
StoreOverwrite(index, ui_ctrl, ui_name, ui_ctrl_widget) ==
    [index EXCEPT ![ui_ctrl] = Put(@, ui_name, <<ui_ctrl_widget>>)]

\* lines 551-554
Store(index, ui_ctrl, ui_name, ui_ctrl_widget) ==
    IF ui_name \notin DOMAIN index[ui_ctrl]
    THEN [index EXCEPT ![ui_ctrl] = Put(@, ui_name, <<ui_ctrl_widget>>)]
    ELSE [index EXCEPT ![ui_ctrl][ui_name] = Append(@, ui_ctrl_widget)]

RECURSIVE IndexCtrlsFrom(_, _, _, _, _)
\* lines 547-554: the loop over self.ui_ctrls
IndexCtrlsFrom(h, ui_ctrls, i, index, ui_path) ==
    IF i > Len(ui_ctrls) THEN index
    ELSE LET ui_ctrl_widget == is_ui_ctrl(h, ui_path, ui_ctrls[i], TRUE)
         IN  IF ~ui_ctrl_widget.none
             THEN IndexCtrlsFrom(h, ui_ctrls, i + 1,
                      Store(index, ui_ctrls[i],
                            accessibleName(ui_ctrl_widget.value),
                            ui_ctrl_widget.value),
                      ui_path)
             ELSE IndexCtrlsFrom(h, ui_ctrls, i + 1, index, ui_path)

\* lines 541-554; acc.walked keeps the paths the method was called with
index_ui_ctrls(h, ui_ctrls, acc, ui_path) ==
    [index |-> IndexCtrlsFrom(h, ui_ctrls, 1, acc.index, ui_path),
     walked |-> Append(acc.walked, ui_path)]

RECURSIVE IndexWindowFrom(_, _, _, _, _)
\* lines 537-539
IndexWindowFrom(h, ui_ctrls, i, acc, window_name) ==
    IF i > Len(h.ui_paths) THEN acc
    ELSE IF In(window_name, h.ui_paths[i])
         THEN IndexWindowFrom(h, ui_ctrls, i + 1,
                  index_ui_ctrls(h, ui_ctrls, acc, h.ui_paths[i]), window_name)
         ELSE IndexWindowFrom(h, ui_ctrls, i + 1, acc, window_name)

index_window(h, ui_ctrls, acc, window_name) ==
    IndexWindowFrom(h, ui_ctrls, 1, acc, window_name)

\* line 521: ui_path[:ui_path.find('|')]
WindowName(ui_path) ==
    LET i == Find(ui_path, "|", 1)
    IN  IF i = 0 THEN SubSeq(ui_path, 1, Len(ui_path) - 1)
        ELSE SubSeq(ui_path, 1, i - 1)

\* lines 518-529 without the checks of what the editor shows
VisitPathAnyTab(h, node_name, ui_ctrls, acc, ui_path) ==
    IF In(node_type, ui_path)
    THEN IF StartsWith(ui_path, <<"window">>)
         THEN index_window(h, ui_ctrls, acc, WindowName(ui_path))
         ELSE IF StartsWith(ui_path, <<"AttributeEditor">>)
                 \/ StartsWith(ui_path, <<"hyperShadePanel">>)
              THEN index_ui_ctrls(h, ui_ctrls, acc, ui_path)
              ELSE acc
    ELSE acc

\* lines 518-529: one iteration of the loop over the ui paths
VisitPath(h, node_name, ui_ctrls, acc, ui_path) ==
    IF In(node_type, ui_path)
    THEN IF StartsWith(ui_path, <<"window">>)
         THEN IF h.window_title = node_name
              THEN index_window(h, ui_ctrls, acc, WindowName(ui_path))
              ELSE acc
         ELSE IF StartsWith(ui_path, <<"AttributeEditor">>)
              THEN IF h.ae_tab = node_name
                   THEN index_ui_ctrls(h, ui_ctrls, acc, ui_path)
                   ELSE acc
              ELSE IF StartsWith(ui_path, <<"hyperShadePanel">>)
                   THEN IF h.pp_tab = node_name
                        THEN index_ui_ctrls(h, ui_ctrls, acc, ui_path)
                        ELSE acc
                   ELSE acc
    ELSE acc

RECURSIVE VisitFrom(_, _, _, _, _)
\* lines 517-529
VisitFrom(h, node_name, ui_ctrls, i, acc) ==
    IF i > Len(h.ui_paths) THEN acc
    ELSE VisitFrom(h, node_name, ui_ctrls, i + 1,
                   VisitPath(h, node_name, ui_ctrls, acc, h.ui_paths[i]))

\* lines 509-529: what __init__ does once the node is known to exist
BuildIndex(h, node_name, ui_ctrls_arg) ==
    LET ui_ctrls == u_enlist(ui_ctrls_arg)
        empty == [t \in {ui_ctrls[i] : i \in 1..Len(ui_ctrls)} |-> EmptyDict]
        acc == VisitFrom(h, node_name, ui_ctrls, 1, [index |-> empty, walked |-> <<>>])
    IN  [has_index |-> TRUE, index |-> acc.index, ui_ctrls |-> ui_ctrls,
         ui_listed |-> TRUE, walked |-> acc.walked, log |-> <<>>]

\* an __init__ that logs the missing node and goes on
InitNoReturn(h, node_name, ui_ctrls_arg) ==
    IF ~h.exists
    THEN [BuildIndex(h, node_name, ui_ctrls_arg) EXCEPT !.log = <<"doesn't exist">>]
    ELSE BuildIndex(h, node_name, ui_ctrls_arg)

\* lines 500-529
AEControlIndexer_init(h, node_name, ui_ctrls_arg) ==
    IF ~h.exists
    THEN [has_index |-> FALSE, index |-> EmptyDict, ui_ctrls |-> <<>>,
          ui_listed |-> FALSE, walked |-> <<>>, log |-> <<"doesn't exist">>]
    ELSE BuildIndex(h, node_name, ui_ctrls_arg)

\* line 498: the class attribute `index = dict()`
ClassIndex == Some(EmptyDict)

\* self.index: the instance attribute when __init__ assigned it, else the
\* class attribute, else an AttributeError (None here)
LookupIndex == IF has_index THEN Some(self_index) ELSE ClassIndex

\* lines 584-587
get_ctrls(self_dot_index, ui_ctrl) ==
    IF self_dot_index.none
    THEN [result |-> NoResult, log |-> <<>>, raised |-> TRUE]
    ELSE IF ui_ctrl \in DOMAIN self_dot_index.value
         THEN [result |-> Some(self_dot_index.value[ui_ctrl]), log |-> <<>>,
               raised |-> FALSE]
         ELSE [result |-> NoResult, log |-> <<"Index doesn't have controls">>,
               raised |-> FALSE]

Hosts ==
    {h \in [exists : BOOLEAN,
            ui_paths : UNION {[1..n -> UIPaths] : n \in 0..MaxPaths},
            window_title : NodeNames, ae_tab : NodeNames, pp_tab : NodeNames] :
        \A i, j \in 1..Len(h.ui_paths) : i # j => h.ui_paths[i] # h.ui_paths[j]}

InitIndexer ==
    /\ host \in Hosts
    /\ idx_pc = "new"
    /\ has_index = FALSE
    /\ self_index = EmptyDict
    /\ self_ui_ctrls = <<>>
    /\ ui_listed = FALSE
    /\ walked = <<>>
    /\ idx_log = <<>>
    /\ idx_result = NoResult
    /\ idx_query = <<>>
    /\ idx_raised = FALSE
    /\ EnvAtRest
    /\ WidAtRest
    /\ LibAtRest

\* AEControlIndexer(node_name, ui_ctrls)
Construct ==
    /\ idx_pc = "new"
    /\ \E ui_ctrls_arg \in CtrlArgs :
          LET r == AEControlIndexer_init(host, <<"lambert1">>, ui_ctrls_arg)
          IN  /\ has_index' = r.has_index
              /\ self_index' = r.index
              /\ self_ui_ctrls' = r.ui_ctrls
              /\ ui_listed' = r.ui_listed
              /\ walked' = r.walked
              /\ idx_log' = r.log
    /\ idx_pc' = "built"
    /\ UNCHANGED <<host, idx_result, idx_query, idx_raised>>
    /\ UNCHANGED <<envVars, widVars, libVars>>

\* indexer.get_ctrls(ui_ctrl)
GetCtrls ==
    /\ idx_pc = "built"
    /\ \E ui_ctrl \in CtrlTypes :
          LET r == get_ctrls(LookupIndex, ui_ctrl)
          IN  /\ idx_result' = r.result
              /\ idx_log' = idx_log \o r.log
              /\ idx_query' = ui_ctrl
              /\ idx_raised' = r.raised
    /\ idx_pc' = "queried"
    /\ UNCHANGED <<host, has_index, self_index, self_ui_ctrls, ui_listed, walked>>
    /\ UNCHANGED <<envVars, widVars, libVars>>

NextIndexer == Construct \/ GetCtrls

SpecIndexer == InitIndexer /\ [][NextIndexer]_vars

(***************************************************************************)
(* Claims about AEControlIndexer                                           *)
(***************************************************************************)
\* the segment behind the last "|" of a path (the whole path without one)
LastSegment(ui_path) ==
    LET bars == {i \in 1..Len(ui_path) : ui_path[i] = "|"}
        last == IF bars = {} THEN 0 ELSE CHOOSE i \in bars : \A j \in bars : j <= i
    IN  SubSeq(ui_path, last + 1, Len(ui_path))

\* the segment names a control of the type: the type name and the number the
\* host appends to it
IsTypeSegment(segment, ui_ctrl) ==
    /\ StartsWith(segment, ui_ctrl)
    /\ \A i \in (Len(ui_ctrl) + 1)..Len(segment) : segment[i] \in Digits

Indexed(index, ui_ctrl, widget) ==
    \E n \in DOMAIN index[ui_ctrl] : Contains(index[ui_ctrl][n], widget)

\* C6: is_ui_ctrl matches a path exactly when its final segment is a control
\* of the searched type; a path whose final segment only contains the type
\* name inside a longer, different name gives None and is not indexed.
C6_ExactSegment ==
    idx_pc = "built" =>
        \A i \in 1..Len(walked) : \A t \in DOMAIN self_index :
            /\ ~is_ui_ctrl(host, walked[i], t, FALSE).none
                  <=> IsTypeSegment(LastSegment(walked[i]), t)
            /\ Indexed(self_index, t, walked[i])
                  <=> IsTypeSegment(LastSegment(walked[i]), t)

\* C7: the index keeps every widget found: index[type][name] is the list of
\* the widgets of that type and name in the order index_ui_ctrls met them,
\* the first one at position 0 and the later ones behind it.
C7_IndexAppends ==
    (idx_pc = "built" /\ has_index) =>
        \A t \in DOMAIN self_index :
            /\ \A n \in DOMAIN self_index[t] :
                  self_index[t][n] =
                      SelectSeq(walked, LAMBDA q :
                          /\ ~is_ui_ctrl(host, q, t, TRUE).none
                          /\ accessibleName(q) = n)
            /\ \A i \in 1..Len(walked) :
                  ~is_ui_ctrl(host, walked[i], t, TRUE).none =>
                      accessibleName(walked[i]) \in DOMAIN self_index[t]

\* C7 witness: two different widgets share an accessible name and both are
\* in the list of that name.
C7_Witness ==
    /\ idx_pc = "built"
    /\ has_index
    /\ \E t \in DOMAIN self_index : \E n \in DOMAIN self_index[t] :
          /\ Len(self_index[t][n]) >= 2
          /\ self_index[t][n][1] # self_index[t][n][2]

\* C8: for a node that does not exist __init__ logs the error and stops: the
\* UI is not listed, no path is walked, no widget is recorded, and get_ctrls
\* returns None for any type without raising.
C8_MissingNodeAborts ==
    (idx_pc # "new" /\ ~host.exists) =>
        /\ idx_log # <<>> /\ idx_log[1] = "doesn't exist"
        /\ ~ui_listed
        /\ walked = <<>>
        /\ (~LookupIndex.none => LookupIndex.value = EmptyDict)
        /\ idx_pc = "queried" => (idx_result.none /\ ~idx_raised)

\* C8 witness: the node is missing while the Attribute Editor lists a frame
\* layout of its type, and get_ctrls was asked for it.
C8_Witness ==
    /\ idx_pc = "queried"
    /\ ~host.exists
    /\ host.ae_tab = <<"lambert1">>
    /\ idx_query = <<"frameLayout">>
    /\ \E i \in 1..Len(host.ui_paths) :
          /\ StartsWith(host.ui_paths[i], <<"AttributeEditor">>)
          /\ In(node_type, host.ui_paths[i])
          /\ IsTypeSegment(LastSegment(host.ui_paths[i]), <<"frameLayout">>)

\* no window, Attribute Editor tab or Hypershade panel shows the node
NotShown ==
    /\ host.window_title # <<"lambert1">>
    /\ host.ae_tab # <<"lambert1">>
    /\ host.pp_tab # <<"lambert1">>

\* C9: when the node exists and no UI shows it, __init__ ends without a log
\* message, every requested control type maps to an empty mapping, and
\* get_ctrls of a requested type returns that empty mapping.
C9_NoOpenUIEmptyIndex ==
    (idx_pc # "new" /\ host.exists /\ NotShown) =>
        /\ has_index
        /\ DOMAIN self_index = {self_ui_ctrls[i] : i \in 1..Len(self_ui_ctrls)}
        /\ self_ui_ctrls # <<>>
        /\ \A t \in DOMAIN self_index : self_index[t] = EmptyDict
        /\ walked = <<>>
        /\ idx_pc = "built" => idx_log = <<>>
        /\ (idx_pc = "queried" /\ idx_query \in DOMAIN self_index) =>
              /\ ~idx_result.none
              /\ idx_result.value = EmptyDict
              /\ idx_log = <<>>
              /\ ~idx_raised

\* C9 witness: the host lists an Attribute Editor frame layout of the node
\* type, but shows another node; get_ctrls("frameLayout") returned a mapping.
C9_Witness ==
    /\ idx_pc = "queried"
    /\ host.exists
    /\ NotShown
    /\ idx_query = <<"frameLayout">>
    /\ ~idx_result.none
    /\ \E i \in 1..Len(host.ui_paths) :
          /\ StartsWith(host.ui_paths[i], <<"AttributeEditor">>)
          /\ In(node_type, host.ui_paths[i])
          /\ IsTypeSegment(LastSegment(host.ui_paths[i]), <<"frameLayout">>)

(***************************************************************************)
(* ATTR_WIDGETS: the controls built for each node attribute                *)
(***************************************************************************)
\* the widget names (object type + attribute) and the type of the attribute
WidgetNames == {"lambertdiffuse", "lambertcolor", "lambertmessage"}
AttrType(widget_name) ==
    CASE widget_name = "lambertdiffuse" -> "float"
      [] widget_name = "lambertcolor" -> "float3"
      [] OTHER -> "message"

\* the names the host gives the controls it creates
Ctrls == {
    <<"AE", "|", "attrFieldSliderGrp", "1">>,
    <<"AE", "|", "attrFieldSliderGrp", "2">>,
    <<"AE", "|", "attrNavigationControlGrp", "3">>,
    <<"window", "1", "|", "attrFieldSliderGrp", "4">>,
    <<"AE", "|", "attrColorSliderGrp", "5">> }

\* lines 354-362: the host command that builds the control of the attribute
CtrlCommand(attr_type, has_map) ==
    CASE attr_type = "float" /\ ~has_map -> <<"attrFieldSliderGrp">>
      [] attr_type = "float" /\ has_map -> <<"attrNavigationControlGrp">>
      [] attr_type = "float3" -> <<"attrColorSliderGrp">>
      [] OTHER -> <<>>

\* qt.ctrl_exists
ctrl_exists(live, qt_ctrl) == qt_ctrl \in live

\* list.pop(i), i counted from 1
PopAt(list, i) == SubSeq(list, 1, i - 1) \o SubSeq(list, i + 1, Len(list))

RECURSIVE CheckFrom(_, _, _)
\* lines 399-401: enumerate() walks the list that pop() shortens, so the
\* position moves on after a pop as after a kept control
CheckFrom(live, ctrls, i) ==
    IF i > Len(ctrls) THEN ctrls
    ELSE IF ~ctrl_exists(live, ctrls[i])
         THEN CheckFrom(live, PopAt(ctrls, i), i + 1)
         ELSE CheckFrom(live, ctrls, i + 1)

\* lines 387-401
_check_attr_widgets(widgets, live, widget_name) ==
    IF widget_name \notin DOMAIN widgets
    THEN Put(widgets, widget_name, <<>>)
    ELSE [widgets EXCEPT ![widget_name] = CheckFrom(live, @, 1)]

InitWidgets ==
    /\ ATTR_WIDGETS = EmptyDict
    /\ live_ctrls = {}
    /\ last_widget = "none"
    /\ wid_log = <<>>
    /\ edited = NoUpdate
    /\ EnvAtRest
    /\ IdxAtRest
    /\ LibAtRest

\* _plain_attr_widget for an attribute whose type has a control (lines 342-384)
BuildWidget ==
    \E widget_name \in WidgetNames, has_map \in BOOLEAN, ctrl \in Ctrls \ live_ctrls :
        LET checked == _check_attr_widgets(ATTR_WIDGETS, live_ctrls, widget_name)
        IN  /\ CtrlCommand(AttrType(widget_name), has_map) # <<>>
            /\ In(CtrlCommand(AttrType(widget_name), has_map), ctrl)
            /\ live_ctrls' = live_ctrls \cup {ctrl}
            /\ ATTR_WIDGETS' =
                  IF ~StartsWith(ctrl, <<"window">>)
                     /\ ~Contains(checked[widget_name], ctrl)
                  THEN [checked EXCEPT ![widget_name] = Append(@, ctrl)]
                  ELSE checked
            /\ last_widget' = widget_name
            /\ wid_log' = <<>>
            /\ edited' = NoUpdate
            /\ UNCHANGED <<envVars, idxVars, libVars>>

\* _plain_attr_widget for an attribute type it does not implement (lines 378-381)
BuildUnsupported ==
    \E widget_name \in WidgetNames :
        /\ CtrlCommand(AttrType(widget_name), FALSE) = <<>>
        /\ ATTR_WIDGETS' = _check_attr_widgets(ATTR_WIDGETS, live_ctrls, widget_name)
        /\ wid_log' = <<"UI could not be generated">>
        /\ last_widget' = widget_name
        /\ edited' = NoUpdate
        /\ UNCHANGED live_ctrls
        /\ UNCHANGED <<envVars, idxVars, libVars>>

\* the host deletes a control (its editor or window was closed)
HostDeletes ==
    \E ctrl \in live_ctrls :
        /\ live_ctrls' = live_ctrls \ {ctrl}
        /\ last_widget' = "none"
        /\ edited' = NoUpdate
        /\ UNCHANGED <<ATTR_WIDGETS, wid_log>>
        /\ UNCHANGED <<envVars, idxVars, libVars>>

RECURSIVE UpdateFrom(_, _, _, _)
\* lines 418-421: the for loop walks the very list that remove() shortens,
\* so the position moves on after a removal as after an edited control;
\* lines 422-440: a control that exists is handed to the edit command
UpdateFrom(live, ctrls, i, done) ==
    IF i > Len(ctrls) THEN [ctrls |-> ctrls, edited |-> done]
    ELSE IF ~ctrl_exists(live, ctrls[i])
         THEN UpdateFrom(live, RemoveFirst(ctrls, ctrls[i]), i + 1, done)
         ELSE UpdateFrom(live, ctrls, i + 1, Append(done, ctrls[i]))

\* lines 404-444, for an attribute of a type with an edit command;
\* attr_exists is the answer of cmds.attributeQuery(attr, n=node, ex=True)
PlainAttrWidgetUpdate ==
    \E widget_name \in WidgetNames, attr_exists \in BOOLEAN :
        LET ctrls == IF widget_name \in DOMAIN ATTR_WIDGETS
                     THEN ATTR_WIDGETS[widget_name] ELSE <<>>
            r == UpdateFrom(live_ctrls, ctrls, 1, <<>>)
        IN  /\ CtrlCommand(AttrType(widget_name), FALSE) # <<>>
            /\ IF attr_exists
               THEN /\ ATTR_WIDGETS' =
                          IF widget_name \in DOMAIN ATTR_WIDGETS
                          THEN [ATTR_WIDGETS EXCEPT ![widget_name] = r.ctrls]
                          ELSE ATTR_WIDGETS
                    /\ edited' = [widget |-> widget_name, before |-> ctrls,
                                  live |-> live_ctrls, ctrls |-> r.edited]
               ELSE /\ UNCHANGED ATTR_WIDGETS
                    /\ edited' = NoUpdate
            /\ last_widget' = "none"
            /\ wid_log' = <<>>
            /\ UNCHANGED live_ctrls
            /\ UNCHANGED <<envVars, idxVars, libVars>>

NextWidgets == BuildWidget \/ BuildUnsupported \/ HostDeletes \/ PlainAttrWidgetUpdate

SpecWidgets == InitWidgets /\ [][NextWidgets]_vars

(***************************************************************************)
(* Claims about ATTR_WIDGETS                                               *)
(***************************************************************************)
\* C10: after a widget build, which runs _check_attr_widgets(widget_name),
\* ATTR_WIDGETS[widget_name] exists and holds no control the host has
\* deleted, and the controls that were alive before are kept in their order.
C10_PrunedOnBuild ==
    [][last_widget' # "none" =>
        /\ last_widget' \in DOMAIN ATTR_WIDGETS'
        /\ \A i \in 1..Len(ATTR_WIDGETS'[last_widget']) :
              ATTR_WIDGETS'[last_widget'][i] \in live_ctrls'
        /\ last_widget' \in DOMAIN ATTR_WIDGETS =>
              IsPrefix(SelectSeq(ATTR_WIDGETS[last_widget'],
                                 LAMBDA c : c \in live_ctrls),
                       ATTR_WIDGETS'[last_widget'])
    ]_vars

\* C23: after _plain_attr_widget_update every control that was registered
\* under the widget name and still exists has been handed to the edit
\* command, in the order of the list, and is still registered; every control
\* that no longer exists has been removed from ATTR_WIDGETS[widget_name] and
\* was not handed to an edit command; none is skipped.
C23_UpdateVisitsAll ==
    edited.widget # "none" =>
        /\ edited.ctrls = SelectSeq(edited.before, LAMBDA c : c \in edited.live)
        /\ edited.widget \in DOMAIN ATTR_WIDGETS =>
              ATTR_WIDGETS[edited.widget] =
                 SelectSeq(edited.before, LAMBDA c : c \in edited.live)

(***************************************************************************)
(* List library (list.py)                                                  *)
(*                                                                         *)
(* A Python value is a record: kind "int" (n), "str" (s), "none", or       *)
(* "list" (kids, the elements in order).  Two values are equal in Python   *)
(* exactly when their records are equal.                                   *)
(***************************************************************************)
MaxListLen == 2    \* elements of a generated raw_list

IntItem(n) == [kind |-> "int", n |-> n, s |-> "", kids |-> <<>>]
StrItem(str) == [kind |-> "str", n |-> 0, s |-> str, kids |-> <<>>]
NoneItem == [kind |-> "none", n |-> 0, s |-> "", kids |-> <<>>]
ListItem(elems) == [kind |-> "list", n |-> 0, s |-> "", kids |-> elems]

\* mutant of enlist: without the None branch
EnlistNoNone(arg) ==
    IF arg.kind \in {"str", "int"} THEN ListItem(<<arg>>) ELSE arg

\* list.py 81-100
enlist(arg) ==
    IF arg.kind = "str" THEN ListItem(<<arg>>)
    ELSE IF arg.kind = "int" THEN ListItem(<<arg>>)
    ELSE IF arg.kind = "none" THEN ListItem(<<>>)
    ELSE arg

\* elem in flat_list
InList(elem, flat_list) == \E i \in 1..Len(flat_list) : flat_list[i] = elem

\* mutant of AddNew: appends without the membership test
AddAlways(flat_list, elem) == Append(flat_list, elem)

\* list.py 31-32 and 34-35: if elem not in flat_list: flat_list.append(elem)
AddNew(flat_list, elem) ==
    IF InList(elem, flat_list) THEN flat_list ELSE Append(flat_list, elem)

RECURSIVE AddAllFrom(_, _, _)
\* list.py 30-32: for re in recursion
AddAllFrom(flat_list, recursion, i) ==
    IF i > Len(recursion) THEN flat_list
    ELSE AddAllFrom(AddNew(flat_list, recursion[i]), recursion, i + 1)

RECURSIVE FlattenFrom(_, _, _)
\* list.py 27-35: the loop over raw_list, from element i on; each nested list
\* is flattened by the same loop started on an empty flat_list (line 29)
FlattenFrom(elems, i, flat_list) ==
    IF i > Len(elems) THEN flat_list
    ELSE IF elems[i].kind = "list"
         THEN FlattenFrom(elems, i + 1,
                  AddAllFrom(flat_list,
                             FlattenFrom(enlist(elems[i]).kids, 1, <<>>), 1))
         ELSE FlattenFrom(elems, i + 1, AddNew(flat_list, elems[i]))

\* list.py 17-36
flatten_list(raw) == ListItem(FlattenFrom(enlist(raw).kids, 1, <<>>))

\* ---- inputs ----
ListLeaves == {IntItem(1), IntItem(2)}

SeqsUpTo(S, n) == UNION {[1..k -> S] : k \in 0..n}

IntList(ns) == ListItem([i \in 1..Len(ns) |-> IntItem(ns[i])])

\* list.py 105: [[3, 5, [7, [5, 5]]], 2, [1, 2], 3]
FlattenExample ==
    ListItem(<< ListItem(<<IntItem(3), IntItem(5),
                           ListItem(<<IntItem(7), IntList(<<5, 5>>)>>)>>),
                IntItem(2), IntList(<<1, 2>>), IntItem(3) >>)

\* nested lists that occur as elements of a generated raw_list
InnerLists == {
    IntList(<<>>),
    IntList(<<1>>),
    IntList(<<2, 1>>),
    IntList(<<1, 1>>),
    ListItem(<<IntItem(2), IntList(<<1, 2>>)>>),
    ListItem(<<IntList(<<2>>), IntList(<<>>), IntItem(1)>>) }

ListArgs == {ListItem(e) : e \in SeqsUpTo(ListLeaves \cup InnerLists, MaxListLen)}
              \cup {FlattenExample, StrItem("a"), IntItem(1), NoneItem}

InitList ==
    /\ raw_list \in ListArgs
    /\ list_result = NoneItem
    /\ list_pc = "arg"
    /\ CoreAtRest
    /\ MathAtRest /\ StrAtRest /\ SchedAtRest /\ SliderAtRest /\ GroupAtRest
    /\ SetupAtRest /\ ShelfAtRest /\ UndoAtRest

notLst == <<coreVars, mathVars, strVars, schedVars, sliderVars, groupVars, setupVars,
            shelfVars, undoVars>>

\* flatten_list(raw_list)
FlattenList ==
    /\ list_pc = "arg"
    /\ list_result' = flatten_list(raw_list)
    /\ list_pc' = "flatten_list"
    /\ UNCHANGED raw_list
    /\ UNCHANGED notLst

\* enlist(raw_list)
Enlist ==
    /\ list_pc = "arg"
    /\ list_result' = enlist(raw_list)
    /\ list_pc' = "enlist"
    /\ UNCHANGED raw_list
    /\ UNCHANGED notLst

\* enlist applied to what enlist returned
EnlistAgain ==
    /\ list_pc = "enlist"
    /\ raw_list' = list_result
    /\ list_result' = enlist(list_result)
    /\ list_pc' = "enlist_again"
    /\ UNCHANGED notLst

NextList == FlattenList \/ Enlist \/ EnlistAgain

SpecList == InitList /\ [][NextList]_vars

(***************************************************************************)
(* Claims about the list library                                           *)
(***************************************************************************)
RECURSIVE LeavesOf(_)
\* the non-list elements of a value in a depth-first left-to-right reading
LeavesOf(item) ==
    IF item.kind # "list" THEN <<item>>
    ELSE IF item.kids = <<>> THEN <<>>
    ELSE LeavesOf(Head(item.kids)) \o LeavesOf(ListItem(Tail(item.kids)))

\* the elements of a sequence, each at the place of its first occurrence
FirstOccurrences(seq) ==
    SelectSeq([i \in 1..Len(seq) |-> [at |-> i, e |-> seq[i]]],
              LAMBDA x : \A j \in 1..(x.at - 1) : seq[j] # x.e)

\* C11: flatten_list returns a flat list holding exactly the leaf elements
\* of its argument, each once, in the order of their first occurrence in a
\* depth-first left-to-right reading; [[3,5,[7,[5,5]]],2,[1,2],3] gives
\* [3,5,7,2,1].
C11_FlattenDedup ==
    list_pc = "flatten_list" =>
        LET out == list_result.kids
            first == FirstOccurrences(LeavesOf(enlist(raw_list)))
        IN  /\ list_result.kind = "list"
            /\ \A i \in 1..Len(out) : out[i].kind # "list"
            /\ \A i, j \in 1..Len(out) : out[i] = out[j] => i = j
            /\ {out[i] : i \in 1..Len(out)}
                 = {LeavesOf(enlist(raw_list))[i] :
                        i \in 1..Len(LeavesOf(enlist(raw_list)))}
            /\ out = [i \in 1..Len(first) |-> first[i].e]
            /\ raw_list = FlattenExample =>
                 list_result = IntList(<<3, 5, 7, 2, 1>>)

C11_Witness ==
    /\ list_pc = "flatten_list"
    /\ raw_list = FlattenExample
    /\ list_result = IntList(<<3, 5, 7, 2, 1>>)

\* C12: enlist of a string is the one-element list of that string, enlist of
\* a list is that list, enlist of None is the empty list, and enlisting the
\* result again changes nothing.
C12_Enlist ==
    /\ list_pc = "enlist" =>
         /\ raw_list.kind = "str" => list_result = ListItem(<<raw_list>>)
         /\ raw_list.kind = "list" => list_result = raw_list
         /\ raw_list.kind = "none" => list_result = ListItem(<<>>)
    /\ list_pc = "enlist_again" => list_result = raw_list

C12_Witness ==
    /\ list_pc = "enlist_again"
    /\ raw_list = ListItem(<<StrItem("a")>>)
    /\ list_result = raw_list

(***************************************************************************)
(* Math helpers (lib.py)                                                   *)
(*                                                                         *)
(* A number is an integer count of halves, so that 0.5 and 1.5 exist:      *)
(* the float 1.0 is Unit.                                                  *)
(***************************************************************************)
MaxNum == 4        \* generated numbers are -MaxNum..MaxNum halves
Unit == 2          \* the float 1.0 of saturate

\* mutant of clamp: the upper limit is not applied
ClampNoUpper(min_v, max_v, value) == IF value < min_v THEN min_v ELSE value

\* lib.py 1407
clamp(min_v, max_v, value) ==
    IF value < min_v THEN min_v ELSE IF value > max_v THEN max_v ELSE value

\* lib.py 1433
saturate(value) == clamp(0, Unit, value)

Nums == (0 - MaxNum)..MaxNum

\* clamp(0, 1, 5) of the library documentation, next to the generated triples
MathArgs ==
    [min_v : Nums, max_v : Nums, value : Nums]
        \cup {[min_v |-> 0, max_v |-> Unit, value |-> 5 * Unit]}

InitMath ==
    /\ math_args \in MathArgs
    /\ math_result = 0
    /\ math_pc = "arg"
    /\ CoreAtRest
    /\ LstAtRest /\ StrAtRest /\ SchedAtRest /\ SliderAtRest /\ GroupAtRest
    /\ SetupAtRest /\ ShelfAtRest /\ UndoAtRest

notMath == <<coreVars, lstVars, strVars, schedVars, sliderVars, groupVars, setupVars,
             shelfVars, undoVars>>

\* clamp(min_v, max_v, value)
Clamp ==
    /\ math_pc = "arg"
    /\ math_result' = clamp(math_args.min_v, math_args.max_v, math_args.value)
    /\ math_pc' = "clamp"
    /\ UNCHANGED math_args
    /\ UNCHANGED notMath

\* clamp(min_v, max_v, <what clamp returned>)
ClampAgain ==
    /\ math_pc = "clamp"
    /\ math_args' = [math_args EXCEPT !.value = math_result]
    /\ math_result' = clamp(math_args.min_v, math_args.max_v, math_result)
    /\ math_pc' = "clamp_again"
    /\ UNCHANGED notMath

\* saturate(value)
Saturate ==
    /\ math_pc = "arg"
    /\ math_result' = saturate(math_args.value)
    /\ math_pc' = "saturate"
    /\ UNCHANGED math_args
    /\ UNCHANGED notMath

NextMath == Clamp \/ ClampAgain \/ Saturate

SpecMath == InitMath /\ [][NextMath]_vars

(***************************************************************************)
(* Claims about the math helpers                                           *)
(***************************************************************************)
\* C13: with min_v <= max_v, clamp returns value when it lies in
\* [min_v, max_v], min_v when value < min_v and max_v when value > max_v
\* (clamp(0,1,5) is 1), so the result lies in [min_v, max_v] and clamping the
\* result again returns it; saturate(value) is value limited to [0, 1].
C13_Clamp ==
    LET a == math_args.min_v
        b == math_args.max_v
        v == math_args.value
    IN  /\ (math_pc = "clamp" /\ a <= b) =>
             /\ (a <= v /\ v <= b) => math_result = v
             /\ v < a => math_result = a
             /\ v > b => math_result = b
             /\ a <= math_result /\ math_result <= b
             /\ (a = 0 /\ b = Unit /\ v = 5 * Unit) => math_result = Unit
        /\ (math_pc = "clamp_again" /\ a <= b) => math_result = v
        /\ math_pc = "saturate" =>
             math_result = (IF v < 0 THEN 0 ELSE IF v > Unit THEN Unit ELSE v)

C13_Witness ==
    /\ math_pc = "clamp"
    /\ math_args = [min_v |-> 0, max_v |-> Unit, value |-> 5 * Unit]
    /\ math_result = Unit

(***************************************************************************)
(* String helpers (lib.py)                                                 *)
(*                                                                         *)
(* Here a text is a sequence of single characters: ASCII letters of        *)
(* either case and the space.                                              *)
(***************************************************************************)
MaxWords == 3      \* words of a generated text
MaxWordLen == 2    \* letters of a generated word

LowerCase == <<"a", "b", "c", "d", "e", "f", "g", "h", "i", "j", "k", "l", "m",
               "n", "o", "p", "q", "r", "s", "t", "u", "v", "w", "x", "y", "z">>
UpperCase == <<"A", "B", "C", "D", "E", "F", "G", "H", "I", "J", "K", "L", "M",
               "N", "O", "P", "Q", "R", "S", "T", "U", "V", "W", "X", "Y", "Z">>

IsLower(c) == \E i \in 1..Len(LowerCase) : LowerCase[i] = c
IsUpper(c) == \E i \in 1..Len(UpperCase) : UpperCase[i] = c
IsLetter(c) == IsLower(c) \/ IsUpper(c)

\* str.upper / str.lower of one character
Upper(c) ==
    IF IsLower(c) THEN UpperCase[CHOOSE i \in 1..Len(LowerCase) : LowerCase[i] = c]
    ELSE c
Lower(c) ==
    IF IsUpper(c) THEN LowerCase[CHOOSE i \in 1..Len(UpperCase) : UpperCase[i] = c]
    ELSE c

\* str.capitalize: first character upper case, the rest lower case
capitalize(word) ==
    [i \in 1..Len(word) |-> IF i = 1 THEN Upper(word[i]) ELSE Lower(word[i])]

\* str.title: a letter is upper case after a non-letter, lower case after a letter
title(str) ==
    [i \in 1..Len(str) |->
        IF ~IsLetter(str[i]) THEN str[i]
        ELSE IF i = 1 \/ ~IsLetter(str[i - 1]) THEN Upper(str[i])
        ELSE Lower(str[i])]

RECURSIVE SplitWords(_, _, _)
\* str.split(): the maximal runs of non-space characters, from position i on,
\* word being the run read so far
SplitWords(str, i, word) ==
    IF i > Len(str) THEN (IF word = <<>> THEN <<>> ELSE <<word>>)
    ELSE IF str[i] = " "
         THEN (IF word = <<>> THEN <<>> ELSE <<word>>) \o SplitWords(str, i + 1, <<>>)
         ELSE SplitWords(str, i + 1, Append(word, str[i]))

RECURSIVE CamelFrom(_, _, _)
\* lib.py 1375-1376
CamelFrom(splitter, index, camel_case_text) ==
    IF index > Len(splitter) THEN camel_case_text
    ELSE CamelFrom(splitter, index + 1,
                   camel_case_text \o capitalize(splitter[index]))

\* lib.py 1365-1377
to_camel_case(str) ==
    LET splitter == SplitWords(str, 1, <<>>)
    IN  IF splitter # <<>> THEN CamelFrom(splitter, 2, splitter[1]) ELSE str

RECURSIVE LowerRunEnd(_, _)
\* [a-z]+ is greedy: the last position of the run of lower-case letters at i
LowerRunEnd(str, i) ==
    IF i < Len(str) /\ IsLower(str[i + 1]) THEN LowerRunEnd(str, i + 1) ELSE i

RECURSIVE SubWord(_, _)
\* lib.py 1386: re.sub('(.)([A-Z][a-z]+)', r'\1 \2', text), scanning from i;
\* a match takes any character, an upper-case letter and one or more
\* lower-case letters, and the scan goes on behind the match
SubWord(str, i) ==
    IF i > Len(str) THEN <<>>
    ELSE IF i + 2 <= Len(str) /\ IsUpper(str[i + 1]) /\ IsLower(str[i + 2])
         THEN LET j == LowerRunEnd(str, i + 2)
              IN  <<str[i], " ">> \o SubSeq(str, i + 1, j) \o SubWord(str, j + 1)
         ELSE <<str[i]>> \o SubWord(str, i + 1)

RECURSIVE SubBoundary(_, _)
\* lib.py 1387: re.sub('([a-z0-9])([A-Z])', r'\1 \2', s1), scanning from i
SubBoundary(str, i) ==
    IF i > Len(str) THEN <<>>
    ELSE IF i + 1 <= Len(str) /\ IsLower(str[i]) /\ IsUpper(str[i + 1])
         THEN <<str[i], " ", str[i + 1]>> \o SubBoundary(str, i + 2)
         ELSE <<str[i]>> \o SubBoundary(str, i + 1)

\* lib.py 1380-1387
de_camelize(str) == title(SubBoundary(SubWord(str, 1), 1))

\* ---- inputs ----
WordLetters == {"a", "b"}

Words == UNION {[1..k -> WordLetters] : k \in 1..MaxWordLen}

RECURSIVE JoinWords(_)
\* " ".join(words)
JoinWords(words) ==
    IF words = <<>> THEN <<>>
    ELSE IF Len(words) = 1 THEN words[1]
    ELSE words[1] \o <<" ">> \o JoinWords(Tail(words))

\* "the camel is huge"
CamelExample ==
    <<"t", "h", "e", " ", "c", "a", "m", "e", "l", " ", "i", "s", " ",
      "h", "u", "g", "e">>

Texts == {JoinWords(ws) : ws \in UNION {[1..k -> Words] : k \in 1..MaxWords}}
           \cup {CamelExample}

InitString ==
    /\ str_text \in Texts
    /\ str_result = <<>>
    /\ str_pc = "arg"
    /\ CoreAtRest
    /\ LstAtRest /\ MathAtRest /\ SchedAtRest /\ SliderAtRest /\ GroupAtRest
    /\ SetupAtRest /\ ShelfAtRest /\ UndoAtRest

notStr == <<coreVars, lstVars, mathVars, schedVars, sliderVars, groupVars, setupVars,
            shelfVars, undoVars>>

\* to_camel_case(str_text)
ToCamelCase ==
    /\ str_pc = "arg"
    /\ str_result' = to_camel_case(str_text)
    /\ str_pc' = "to_camel_case"
    /\ UNCHANGED str_text
    /\ UNCHANGED notStr

\* de_camelize(<what to_camel_case returned>)
DeCamelize ==
    /\ str_pc = "to_camel_case"
    /\ str_result' = de_camelize(str_result)
    /\ str_pc' = "de_camelize"
    /\ UNCHANGED str_text
    /\ UNCHANGED notStr

NextString == ToCamelCase \/ DeCamelize

SpecString == InitString /\ [][NextString]_vars

(***************************************************************************)
(* Claims about the string helpers                                         *)
(***************************************************************************)
\* the words of a text, first word as it is, the following ones capitalized
CamelWords(words) ==
    [i \in 1..Len(words) |-> IF i = 1 THEN words[i] ELSE capitalize(words[i])]

RECURSIVE Flatten(_)
Flatten(seqs) == IF seqs = <<>> THEN <<>> ELSE Head(seqs) \o Flatten(Tail(seqs))

\* C14: for a text of lower-case ASCII words, to_camel_case is the first
\* word followed by the other words capitalized ("the camel is huge" gives
\* "theCamelIsHuge"), and de_camelize of that result is the same words,
\* title-cased and separated by single spaces, one-letter words included.
C14_CamelRoundTrip ==
    LET words == SplitWords(str_text, 1, <<>>)
    IN  /\ str_pc = "to_camel_case" =>
             str_result = Flatten(CamelWords(words))
        /\ str_pc = "de_camelize" =>
             str_result = JoinWords([i \in 1..Len(words) |-> capitalize(words[i])])

(***************************************************************************)
(* Scheduler (scheduler.py)                                                *)
(*                                                                         *)
(* deferred is the host's queue of cmds.evalDeferred commands; the host    *)
(* runs them one at a time, oldest first, whenever it is idle.  A burst is *)
(* the calls of ae_update_schedule made from one idle moment of the host   *)
(* to the next: it is over when the host has run update_ae or has nothing  *)
(* left to run.                                                            *)
(***************************************************************************)
MaxCalls == 4      \* calls of ae_update_schedule counted in one burst
MaxDeferred == 4   \* commands waiting in the host's queue

\* number of update_ae commands in a queue
Pending(queue) == Cardinality({i \in 1..Len(queue) : queue[i] = "update_ae"})

\* scheduler.py 24-27
ae_update_schedule(scheduled, queue) ==
    IF ~scheduled
    THEN [scheduled |-> TRUE, queue |-> Append(queue, "update_ae")]
    ELSE [scheduled |-> scheduled, queue |-> queue]

\* scheduler.py 19-22: mel.eval either returns (ok) or raises, and then the
\* assignment of line 22 is not reached
update_ae(scheduled, ok) == IF ok THEN FALSE ELSE scheduled

InitScheduler ==
    /\ AE_UPDATE_SCHEDULED = FALSE
    /\ deferred = <<>>
    /\ sched_calls = 0
    /\ sched_refreshed = 0
    /\ sched_idle = TRUE
    /\ CoreAtRest
    /\ LstAtRest /\ MathAtRest /\ StrAtRest /\ SliderAtRest /\ GroupAtRest
    /\ SetupAtRest /\ ShelfAtRest /\ UndoAtRest

notSched == <<coreVars, lstVars, mathVars, strVars, sliderVars, groupVars, setupVars,
              shelfVars, undoVars>>

\* a call of ae_update_schedule(); the first one after an idle moment of the
\* host starts a burst
AeUpdateSchedule ==
    LET r == ae_update_schedule(AE_UPDATE_SCHEDULED, deferred)
    IN  /\ Len(r.queue) <= MaxDeferred
        /\ ~sched_idle => sched_calls < MaxCalls
        /\ AE_UPDATE_SCHEDULED' = r.scheduled
        /\ deferred' = r.queue
        /\ sched_calls' = IF sched_idle THEN 1 ELSE sched_calls + 1
        /\ sched_refreshed' = IF sched_idle THEN 0 ELSE sched_refreshed
        /\ sched_idle' = FALSE
        /\ UNCHANGED notSched

\* some other code defers a command of its own
HostDefers ==
    /\ Len(deferred) < MaxDeferred
    /\ deferred' = Append(deferred, "other")
    /\ UNCHANGED <<AE_UPDATE_SCHEDULED, sched_calls, sched_refreshed, sched_idle>>
    /\ UNCHANGED notSched

\* the host is idle: it runs the oldest deferred command, if there is one
HostIdle ==
    /\ deferred # <<>> \/ ~sched_idle
    /\ IF deferred = <<>>
       THEN /\ sched_idle' = TRUE
            /\ UNCHANGED <<deferred, AE_UPDATE_SCHEDULED, sched_refreshed>>
       ELSE /\ deferred' = Tail(deferred)
            /\ IF Head(deferred) = "update_ae"
               THEN /\ sched_refreshed' = sched_refreshed + 1
                    /\ sched_idle' = TRUE
                    /\ \E ok \in BOOLEAN :
                          AE_UPDATE_SCHEDULED' = update_ae(AE_UPDATE_SCHEDULED, ok)
               ELSE /\ sched_idle' = (sched_idle \/ Tail(deferred) = <<>>)
                    /\ UNCHANGED <<AE_UPDATE_SCHEDULED, sched_refreshed>>
    /\ UNCHANGED sched_calls
    /\ UNCHANGED notSched

\* a call of ae_update_schedule() in which the host runs the deferred command
\* before cmds.evalDeferred returns: update_ae runs at line 26, the flag is
\* set after it at line 27; if the refresh raises, line 27 is not reached
AeUpdateScheduleAtOnce ==
    /\ ~AE_UPDATE_SCHEDULED
    /\ ~sched_idle => sched_calls < MaxCalls
    /\ \E ok \in BOOLEAN :
          AE_UPDATE_SCHEDULED' = (IF ok THEN TRUE ELSE AE_UPDATE_SCHEDULED)
    /\ sched_calls' = IF sched_idle THEN 1 ELSE sched_calls + 1
    /\ sched_refreshed' = IF sched_idle THEN 1 ELSE sched_refreshed + 1
    /\ sched_idle' = FALSE
    /\ UNCHANGED deferred
    /\ UNCHANGED notSched

NextScheduler == AeUpdateSchedule \/ AeUpdateScheduleAtOnce \/ HostDefers \/ HostIdle

SpecScheduler == InitScheduler /\ [][NextScheduler]_vars

\* the host becomes idle again and again
SpecSchedulerLive == SpecScheduler /\ WF_vars(HostIdle)

(***************************************************************************)
(* Claims about the scheduler                                              *)
(***************************************************************************)
\* C15: however often ae_update_schedule is called before the host is
\* idle, at most one update_ae is queued at any time, and when the host has
\* been idle the refreshEditorTemplates command has run exactly once for
\* the burst of calls.
C15_OncePerBurst ==
    /\ Pending(deferred) <= 1
    /\ (sched_idle /\ sched_calls >= 1) => sched_refreshed = 1

\* C21: a call of ae_update_schedule is eventually followed by a run of
\* refreshEditorTemplates: whenever a call was made and no refresh has run
\* for it yet, a refresh runs later; no request is lost.
C21_CallLeadsToRefresh ==
    (~sched_idle /\ sched_calls >= 1 /\ sched_refreshed = 0) ~> (sched_refreshed >= 1)

\* C22: AE_UPDATE_SCHEDULED is True exactly when an update_ae is waiting in
\* the host's queue, also after a refresh that raised and after a deferred
\* command the host ran before the flag was set.
C22_FlagIffPending == AE_UPDATE_SCHEDULED <=> (Pending(deferred) >= 1)

(***************************************************************************)
(* RelativeSlider (qt.py)                                                  *)
(*                                                                         *)
(* Time is counted in timer periods of 0.01 s.  sl_now is time.time() up   *)
(* to MaxTime and stays there: every end_time is at most MaxTime, so the   *)
(* test of line 491 reads the same for every later time.  A slide_back     *)
(* call is a record of sl_threads: the call made by release() and the ones *)
(* made by threading.Timer, each on a thread of its own, so that the calls *)
(* of two releases interleave with each other and with the user.           *)
(***************************************************************************)
MaxTime == 6       \* the modelled stretch of time, in timer periods
MaxChains == 1     \* releases whose slide_back calls are still running
Window == 5        \* 0.05 s: the time release() gives slide_back
TimerPeriod == 1   \* 0.01 s: the delay of threading.Timer

SliderValues == {0 - 2, 0, 2}

\* int(value * 0.9): setValue takes an int, the conversion drops the fraction
Decay(value) ==
    IF value >= 0 THEN (value * 9) \div 10 ELSE 0 - (((0 - value) * 9) \div 10)

\* mutant of InWindow: the end of the window is never seen
AlwaysInWindow(now, end_time) == TRUE

\* qt.py 491: time.time() < end_time
InWindow(now, end_time) == now < end_time

InitSlider ==
    /\ sl_value = 0
    /\ prevValue = 0
    /\ sl_now = 0
    /\ sl_threads = <<>>
    /\ sl_blocked = FALSE
    /\ CoreAtRest
    /\ LstAtRest /\ MathAtRest /\ StrAtRest /\ SchedAtRest /\ GroupAtRest
    /\ SetupAtRest /\ ShelfAtRest /\ UndoAtRest

notSlider == <<coreVars, lstVars, mathVars, strVars, schedVars, groupVars,
               setupVars, shelfVars, undoVars>>

\* the user drags the handle to v
UserMove(v) ==
    /\ v # sl_value
    /\ sl_value' = v
    /\ UNCHANGED <<prevValue, sl_now, sl_threads, sl_blocked>>
    /\ UNCHANGED notSlider

\* qt.py 479-487
RelValue ==
    /\ prevValue' = sl_value
    /\ UNCHANGED <<sl_value, sl_now, sl_threads, sl_blocked>>
    /\ UNCHANGED notSlider

\* qt.py 475-477: sliderReleased; the slide_back call it makes is the new
\* record, ready to run
Release ==
    /\ Len(sl_threads) < MaxChains
    /\ sl_now + Window <= MaxTime
    /\ prevValue' = 0
    /\ sl_threads' = Append(sl_threads,
           [end_time |-> sl_now + Window, wait |-> 0, pc |-> "call", v |-> 0])
    /\ UNCHANGED <<sl_value, sl_now, sl_blocked>>
    /\ UNCHANGED notSlider

\* qt.py 490-492 and 494-496: slide_back up to the read of self.value(), or,
\* past the window, all of it
SlideBack(i) ==
    /\ sl_threads[i].pc = "call"
    /\ sl_threads[i].wait = 0
    /\ IF InWindow(sl_now, sl_threads[i].end_time)
       THEN /\ sl_threads' = [sl_threads EXCEPT ![i].pc = "set", ![i].v = sl_value]
            /\ sl_blocked' = TRUE
            /\ UNCHANGED sl_value
       ELSE /\ sl_value' = 0
            /\ sl_threads' = PopAt(sl_threads, i)
            /\ sl_blocked' = FALSE
    /\ UNCHANGED <<prevValue, sl_now>>
    /\ UNCHANGED notSlider

\* qt.py 492-493 and 496: setValue, start of the next timer, blockSignals(False)
SlideSet(i) ==
    /\ sl_threads[i].pc = "set"
    /\ sl_value' = Decay(sl_threads[i].v)
    /\ sl_threads' = [sl_threads EXCEPT ![i].pc = "call", ![i].v = 0,
                                         ![i].wait = TimerPeriod]
    /\ sl_blocked' = FALSE
    /\ UNCHANGED <<prevValue, sl_now>>
    /\ UNCHANGED notSlider

\* one timer period passes
Tick ==
    /\ sl_now' = IF sl_now < MaxTime THEN sl_now + 1 ELSE sl_now
    /\ sl_threads' = [i \in 1..Len(sl_threads) |->
                        IF sl_threads[i].wait > 0
                        THEN [sl_threads[i] EXCEPT !.wait = @ - 1]
                        ELSE sl_threads[i]]
    /\ UNCHANGED <<sl_value, prevValue, sl_blocked>>
    /\ UNCHANGED notSlider

SlideBackStep == \E i \in 1..Len(sl_threads) : SlideBack(i)
SlideSetStep == \E i \in 1..Len(sl_threads) : SlideSet(i)
UserMoves == \E v \in SliderValues : UserMove(v)

NextSlider ==
    UserMoves \/ RelValue \/ Release \/ SlideBackStep \/ SlideSetStep \/ Tick

SpecSlider == InitSlider /\ [][NextSlider]_vars

\* time passes, and a thread that can run does run
SpecSliderLive ==
    /\ SpecSlider
    /\ WF_vars(Tick)
    /\ WF_vars(SlideBackStep)
    /\ WF_vars(SlideSetStep)

(***************************************************************************)
(* Claims about RelativeSlider                                             *)
(***************************************************************************)
\* C16: a release sets prevValue to 0 and starts slide_back calls that end
\* once the time window has passed: the calls of every release come to an
\* end, the call that ends them sets the value to 0 and starts no timer, and
\* with no slide_back call left the value stays 0 until the user moves the
\* slider.
C16_SlidesBack ==
    /\ [][Len(sl_threads') > Len(sl_threads) => prevValue' = 0]_vars
    /\ [][Len(sl_threads') < Len(sl_threads) =>
            (sl_value' = 0 /\ Len(sl_threads') = Len(sl_threads) - 1)]_vars
    /\ [][(sl_threads = <<>> /\ sl_value = 0 /\ sl_value' # 0) => UserMoves]_vars
    /\ (sl_threads # <<>>) ~> (sl_threads = <<>> /\ sl_value = 0)

\* the last slide_back call of a release is due, past the window, with the
\* value decayed but not yet 0
C16_Witness ==
    /\ Len(sl_threads) = 1
    /\ sl_threads[1].pc = "call"
    /\ sl_threads[1].wait = 0
    /\ ~InWindow(sl_now, sl_threads[1].end_time)
    /\ sl_value = Decay(2)
    /\ prevValue = 0

(***************************************************************************)
(* LabeledFieldSliderGroup (qt.py)                                         *)
(*                                                                         *)
(* group is the widget: its members min, max, soft_min, soft_max and       *)
(* internalValue, the value of its spin box (field), its QSlider (range    *)
(* and value), and the warnings the last call logged.  Values are whole    *)
(* numbers; the slider's factor of 1000 is left out.                       *)
(***************************************************************************)
MaxRange == 3

GroupValues == 0..MaxRange

\* a hard limit (minv, maxv that are not None)
Limit(v) == [none |-> FALSE, v |-> v]

Limits == {NoLimit} \cup {Limit(v) : v \in GroupValues}

\* Qt's qBound(lo, v, hi)
Bound(lo, v, hi) ==
    LET m == IF v < hi THEN v ELSE hi
    IN  IF m > lo THEN m ELSE lo

\* QSlider.setMinimum, setMaximum, setValue: the range stays ordered and the
\* value inside it
setMinimum(slider, m) ==
    LET hi == IF slider.maximum > m THEN slider.maximum ELSE m
    IN  [minimum |-> m, maximum |-> hi, value |-> Bound(m, slider.value, hi)]

setMaximum(slider, m) ==
    LET lo == IF slider.minimum < m THEN slider.minimum ELSE m
    IN  [minimum |-> lo, maximum |-> m, value |-> Bound(lo, slider.value, m)]

setValue(slider, v) ==
    [slider EXCEPT !.value = Bound(slider.minimum, v, slider.maximum)]

\* qt.py 535-540: the value the field takes for v, inside the hard limits
FieldValue(g, v) ==
    LET lo == IF g.min.none \/ v >= g.min.v THEN v ELSE g.min.v
    IN  IF g.max.none \/ lo <= g.max.v THEN lo ELSE g.max.v

\* qt.py 566-586
_set_slider_members(soft_minv, soft_maxv, minv, maxv) ==
    [NoGroup EXCEPT
        !.min = minv,
        !.soft_min = IF ~minv.none /\ soft_minv < minv.v THEN minv.v
                     ELSE soft_minv,
        !.max = maxv,
        !.soft_max = IF ~maxv.none /\ soft_maxv > maxv.v THEN maxv.v
                     ELSE soft_maxv]

\* qt.py 596-609: "check minimum"
check_minimum(g, minv, maxv) ==
    LET g1 == IF minv < maxv
              THEN IF g.min.none \/ minv >= g.min.v
                   THEN [g EXCEPT !.soft_min = minv]
                   ELSE [g EXCEPT !.log = Append(@, "soft minimum under minimum")]
              ELSE [g EXCEPT !.log = Append(@, "minimum not less than maximum")]
    IN  [g1 EXCEPT !.slider = setMinimum(@, g1.soft_min)]

\* qt.py 610-623: "check maximum"
check_maximum(g, maxv) ==
    LET g1 == IF maxv > g.soft_min
              THEN IF g.max.none \/ maxv <= g.max.v
                   THEN [g EXCEPT !.soft_max = maxv]
                   ELSE [g EXCEPT !.log = Append(@, "soft maximum over maximum")]
              ELSE [g EXCEPT !.log = Append(@, "maximum not more than minimum")]
    IN  [g1 EXCEPT !.slider = setMaximum(@, g1.soft_max)]

\* qt.py 633-644: update_value when the sender is the field; the slider's
\* signals are blocked, so the two set_range calls run straight through
update_value_field(g, value) ==
    LET g1 == IF value < g.soft_min
              THEN check_maximum(check_minimum(g, value, g.soft_max), g.soft_max)
              ELSE g
        g2 == IF value > g1.soft_max
              THEN check_maximum(check_minimum(g1, g1.soft_min, value), value)
              ELSE g1
    IN  [g2 EXCEPT !.slider = setValue(@, value), !.internalValue = value]

\* qt.py 625-632, 643: update_value when the sender is the slider; setting
\* the field makes the field call update_value in turn when its value changes
update_value_slider(g) ==
    LET value == g.slider.value
        fv == FieldValue(g, value)
        g1 == IF fv # g.field
              THEN update_value_field([g EXCEPT !.field = fv], fv)
              ELSE g
    IN  [g1 EXCEPT !.internalValue = value]

\* qt.py 589-623: set_range; once the connections are made (line 562), a
\* slider whose value a new bound moves calls update_value
set_range(g, minv, maxv, connected) ==
    LET g1 == check_minimum(g, minv, maxv)
        g2 == IF connected /\ g1.slider.value # g.slider.value
              THEN update_value_slider(g1) ELSE g1
        g3 == check_maximum(g2, maxv)
    IN  IF connected /\ g3.slider.value # g2.slider.value
        THEN update_value_slider(g3) ELSE g3

InitGroup ==
    /\ sg_pc = "new"
    /\ group = NoGroup
    /\ CoreAtRest
    /\ LstAtRest /\ MathAtRest /\ StrAtRest /\ SchedAtRest /\ SliderAtRest
    /\ SetupAtRest /\ ShelfAtRest /\ UndoAtRest

notGroup == <<coreVars, lstVars, mathVars, strVars, schedVars, sliderVars,
              setupVars, shelfVars, undoVars>>

\* qt.py 512-563: __init__
GroupInit(value, soft_minv, soft_maxv, minv, maxv) ==
    /\ sg_pc = "new"
    /\ LET g0 == _set_slider_members(soft_minv, soft_maxv, minv, maxv)
           g1 == set_range(g0, g0.soft_min, g0.soft_max, FALSE)
       IN  group' = [g1 EXCEPT !.field = FieldValue(g1, value),
                               !.slider = setValue(@, value),
                               !.internalValue = value]
    /\ sg_pc' = "built"
    /\ UNCHANGED notGroup

\* qt.py 589-623: a caller sets the range
SetRange(minv, maxv) ==
    /\ sg_pc = "built"
    /\ group' = set_range([group EXCEPT !.log = <<>>], minv, maxv, TRUE)
    /\ UNCHANGED sg_pc
    /\ UNCHANGED notGroup

\* qt.py 625-644: the user types a value into the field
FieldEdited(value) ==
    /\ sg_pc = "built"
    /\ value # group.field
    /\ FieldValue(group, value) = value
    /\ group' = update_value_field(
                    [group EXCEPT !.log = <<>>, !.field = value], value)
    /\ UNCHANGED sg_pc
    /\ UNCHANGED notGroup

\* qt.py 625-644: the user drags the slider
SliderMoved(value) ==
    /\ sg_pc = "built"
    /\ value # group.slider.value
    /\ group.slider.minimum <= value
    /\ value <= group.slider.maximum
    /\ group' = update_value_slider(
                    [group EXCEPT !.log = <<>>, !.slider.value = value])
    /\ UNCHANGED sg_pc
    /\ UNCHANGED notGroup

\* the group is constructed with soft_minv < soft_maxv, and minv < maxv when
\* both hard limits are given
GroupInits ==
    \E value, soft_minv, soft_maxv \in GroupValues : \E minv, maxv \in Limits :
        /\ soft_minv < soft_maxv
        /\ (~minv.none /\ ~maxv.none) => minv.v < maxv.v
        /\ GroupInit(value, soft_minv, soft_maxv, minv, maxv)

SetsRange == \E minv, maxv \in GroupValues : SetRange(minv, maxv)

FieldEdits == \E value \in GroupValues : FieldEdited(value)

SliderMoves == \E value \in GroupValues : SliderMoved(value)

NextGroup == GroupInits \/ SetsRange \/ FieldEdits \/ SliderMoves

SpecGroup == InitGroup /\ [][NextGroup]_vars

(***************************************************************************)
(* Claims about LabeledFieldSliderGroup                                    *)
(***************************************************************************)

\* C28: a group constructed with soft_minv < soft_maxv keeps a consistent
\* range in every state set_range and update_value reach: soft_min <=
\* soft_max, and min <= soft_min and soft_max <= max when the hard limits are
\* given.
C28_ConsistentRange ==
    sg_pc = "built" =>
        /\ group.soft_min <= group.soft_max
        /\ ~group.min.none => group.min.v <= group.soft_min
        /\ ~group.max.none => group.soft_max <= group.max.v

(***************************************************************************)
(* The undo decorator (lib.py)                                             *)
(*                                                                         *)
(* undo_log is the sequence of cmds.undoInfo calls, undo_stack the wrapped *)
(* calls whose body is running, the innermost last: the body of a wrapped  *)
(* function may call another wrapped function.                             *)
(***************************************************************************)
MaxUndoCalls == 3  \* wrapped calls in one run
MaxUndoDepth == 2  \* wrapped calls inside one another

\* functions decorated with @clib.undo (vertices.py 49-50 and 90-91)
Wrapped == {"create_color_set", "delete_color_sets"}

\* lib.py 103 and 109: cmds.undoInfo(openChunk / closeChunk, cn=f)
OpenChunk(f) == [op |-> "openChunk", cn |-> f]
CloseChunk(f) == [op |-> "closeChunk", cn |-> f]

CountOp(log, op) == Cardinality({i \in 1..Len(log) : log[i].op = op})

\* mutant of undo_finally: the chunk is not closed
NoFinally(log, f) == log

\* lib.py 107-109
undo_finally(log, f) == Append(log, CloseChunk(f))

InitUndo ==
    /\ undo_log = <<>>
    /\ undo_stack = <<>>
    /\ undo_returned = "nothing yet"
    /\ CoreAtRest
    /\ LstAtRest /\ MathAtRest /\ StrAtRest /\ SchedAtRest /\ SliderAtRest /\ GroupAtRest
    /\ SetupAtRest /\ ShelfAtRest

notUndo == <<coreVars, lstVars, mathVars, strVars, schedVars, sliderVars, groupVars,
             setupVars, shelfVars>>

\* lib.py 100-104: undo_wrapper is entered and calls f
CallWrapped(f) ==
    /\ CountOp(undo_log, "openChunk") < MaxUndoCalls
    /\ Len(undo_stack) < MaxUndoDepth
    /\ undo_log' = Append(undo_log, OpenChunk(f))
    /\ undo_stack' = Append(undo_stack, f)
    /\ UNCHANGED undo_returned
    /\ UNCHANGED notUndo

\* lib.py 104 and 107-109: f returns, the wrapper returns its value
BodyReturns ==
    /\ undo_stack # <<>>
    /\ undo_log' = undo_finally(undo_log, undo_stack[Len(undo_stack)])
    /\ undo_stack' = SubSeq(undo_stack, 1, Len(undo_stack) - 1)
    /\ undo_returned' = "value"
    /\ UNCHANGED notUndo

\* lib.py 105-109: f raises, the wrapper prints the traceback and returns None
BodyRaises ==
    /\ undo_stack # <<>>
    /\ undo_log' = undo_finally(undo_log, undo_stack[Len(undo_stack)])
    /\ undo_stack' = SubSeq(undo_stack, 1, Len(undo_stack) - 1)
    /\ undo_returned' = "None"
    /\ UNCHANGED notUndo

CallsWrapped == \E f \in Wrapped : CallWrapped(f)

NextUndo == CallsWrapped \/ BodyReturns \/ BodyRaises

SpecUndo == InitUndo /\ [][NextUndo]_vars

(***************************************************************************)
(* Claims about the undo decorator                                         *)
(***************************************************************************)
RECURSIVE OpenChunks(_, _)
\* the chunks a log leaves open, innermost last; "unmatched" marks a
\* closeChunk that does not close the innermost open chunk
OpenChunks(log, open) ==
    IF log = <<>> THEN open
    ELSE IF Head(log).op = "openChunk"
         THEN OpenChunks(Tail(log), Append(open, Head(log).cn))
    ELSE IF open # <<>> /\ open[Len(open)] = Head(log).cn
         THEN OpenChunks(Tail(log), SubSeq(open, 1, Len(open) - 1))
    ELSE <<"unmatched">>

\* C19: a wrapped call opens one undo chunk before its body and closes it
\* after the body, whether the body returns or raises (and then the wrapper
\* returns None): the chunks open at any moment are those of the calls in
\* progress, and with no call in progress as many chunks were closed as
\* were opened.
C19_UndoBalanced ==
    /\ [](OpenChunks(undo_log, <<>>) = undo_stack)
    /\ [](undo_stack = <<>> =>
            CountOp(undo_log, "closeChunk") = CountOp(undo_log, "openChunk"))
    /\ [][Len(undo_stack') > Len(undo_stack) =>
            undo_log' = Append(undo_log, OpenChunk(undo_stack'[Len(undo_stack')]))]_vars
    /\ [][Len(undo_stack') < Len(undo_stack) =>
            undo_log' = Append(undo_log, CloseChunk(undo_stack[Len(undo_stack)]))]_vars

\* a call that raised inside another wrapped call, both finished
C19_Witness ==
    /\ undo_stack = <<>>
    /\ undo_returned = "None"
    /\ undo_log = <<OpenChunk("delete_color_sets"), OpenChunk("create_color_set"),
                    CloseChunk("create_color_set"), CloseChunk("delete_color_sets")>>

(***************************************************************************)
(* Shelves (shelves.py, and the older delete_shelves of lib.py)            *)
(*                                                                         *)
(* A file of <env_dir>/prefs/shelves is a record: shelf_<name>.mel has     *)
(* deleted = FALSE, shelf_<name>.mel.deleted has deleted = TRUE.           *)
(***************************************************************************)
MaxShelves == 2  \* shelves given to one call

ShelfNames == {"Animation", "Rigging"}

ShelfFile(name) == [shelf |-> name, deleted |-> FALSE]
DeletedFile(name) == [shelf |-> name, deleted |-> TRUE]
ShelfDir == {ShelfFile(n) : n \in ShelfNames} \cup {DeletedFile(n) : n \in ShelfNames}

\* the ways a shelf is given (shelves.py 23): "Animation", "Animation.mel"
ShelfArgs == [name : ShelfNames, ext : BOOLEAN]

\* shelves.py 73-99: both lists carry the name before ".mel"
format_shelves(shelves) == [i \in 1..Len(shelves) |-> shelves[i].name]

NoCall == [f |-> "none", names |-> <<>>, before |-> {}, dialog |-> FALSE]

\* shelves.py 36 and lib.py 534: saveAllShelves writes the file of every
\* shelf layout of the host
saveAllShelves(files, ui) == files \cup {ShelfFile(n) : n \in ui}

RECURSIVE MarkDeleted(_, _)
\* shelves.py 45-53: os.rename raises when os.remove has just removed its
\* source, and the loop ends there
MarkDeleted(files, names) ==
    IF names = <<>> THEN [files |-> files, raised |-> FALSE]
    ELSE IF ShelfFile(Head(names)) \notin files
         THEN MarkDeleted(files, Tail(names))
    ELSE IF DeletedFile(Head(names)) \in files
         THEN [files |-> files \ {ShelfFile(Head(names))}, raised |-> TRUE]
    ELSE MarkDeleted((files \ {ShelfFile(Head(names))})
                        \cup {DeletedFile(Head(names))}, Tail(names))

RECURSIVE ClibMarkDeleted(_, _)
\* lib.py 543-552: os.remove, then continue
ClibMarkDeleted(files, names) ==
    IF names = <<>> THEN [files |-> files, raised |-> FALSE]
    ELSE IF ShelfFile(Head(names)) \notin files
         THEN ClibMarkDeleted(files, Tail(names))
    ELSE IF DeletedFile(Head(names)) \in files
         THEN ClibMarkDeleted(files \ {ShelfFile(Head(names))}, Tail(names))
    ELSE ClibMarkDeleted((files \ {ShelfFile(Head(names))})
                            \cup {DeletedFile(Head(names))}, Tail(names))

ShelfLists == UNION {[1..n -> ShelfArgs] : n \in 0..MaxShelves}

InitShelves ==
    /\ shelf_files \in SUBSET ShelfDir
    /\ shelf_ui \in SUBSET ShelfNames
    /\ shelf_raised = FALSE
    /\ shelf_call = NoCall
    /\ CoreAtRest
    /\ LstAtRest /\ MathAtRest /\ StrAtRest /\ SchedAtRest /\ SliderAtRest /\ GroupAtRest
    /\ SetupAtRest /\ UndoAtRest

notShelf == <<coreVars, lstVars, mathVars, strVars, schedVars, sliderVars, groupVars,
              setupVars, undoVars>>

\* shelves.py 19-55
DeleteShelves(shelves, restart) ==
    IF shelves = <<>>
    THEN /\ shelf_call' = [f |-> "delete_shelves", names |-> <<>>,
                           before |-> shelf_files, dialog |-> FALSE]
         /\ shelf_raised' = FALSE
         /\ UNCHANGED <<shelf_files, shelf_ui>>
         /\ UNCHANGED notShelf
    ELSE LET names == format_shelves(shelves)
             marked == MarkDeleted(saveAllShelves(shelf_files, shelf_ui), names)
         IN /\ shelf_ui' = shelf_ui \ {names[i] : i \in 1..Len(names)}
            /\ shelf_files' = marked.files
            /\ shelf_raised' = marked.raised
            /\ shelf_call' = [f |-> "delete_shelves", names |-> names,
                              before |-> shelf_files,
                              dialog |-> restart /\ ~marked.raised]
            /\ UNCHANGED notShelf

\* lib.py 519-554; shelves_dict is given as the shelves in iteration order
ClibDeleteShelves(shelves, restart) ==
    IF shelves = <<>>
    THEN /\ shelf_call' = [f |-> "clib.delete_shelves", names |-> <<>>,
                           before |-> shelf_files, dialog |-> FALSE]
         /\ shelf_raised' = TRUE
         /\ UNCHANGED <<shelf_files, shelf_ui>>
         /\ UNCHANGED notShelf
    ELSE LET names == format_shelves(shelves)
             marked == ClibMarkDeleted(saveAllShelves(shelf_files, shelf_ui), names)
         IN /\ shelf_ui' = shelf_ui \ {names[i] : i \in 1..Len(names)}
            /\ shelf_files' = marked.files
            /\ shelf_raised' = marked.raised
            /\ shelf_call' = [f |-> "clib.delete_shelves", names |-> names,
                              before |-> shelf_files, dialog |-> restart]
            /\ UNCHANGED notShelf

\* shelves.py 58-70
RestoreShelves ==
    /\ shelf_files' =
          {f \in shelf_files : ~f.deleted}
             \cup {ShelfFile(f.shelf) : f \in {g \in shelf_files : g.deleted}}
    /\ shelf_raised' = FALSE
    /\ shelf_call' = [f |-> "restore_shelves", names |-> <<>>,
                      before |-> shelf_files, dialog |-> TRUE]
    /\ UNCHANGED shelf_ui
    /\ UNCHANGED notShelf

DeletesShelves ==
    \E shelves \in ShelfLists, restart \in BOOLEAN : DeleteShelves(shelves, restart)

ClibDeletesShelves ==
    \E shelves \in ShelfLists, restart \in BOOLEAN : ClibDeleteShelves(shelves, restart)

NextShelves == DeletesShelves \/ ClibDeletesShelves \/ RestoreShelves

SpecShelves == InitShelves /\ [][NextShelves]_vars

(***************************************************************************)
(* Claims about the shelves                                                *)
(***************************************************************************)
\* C20: after delete_shelves (of shelves.py or of lib.py) was called with
\* some shelves, the call has not raised, and for every listed shelf whose
\* file shelf_<name>.mel existed before the call that file is gone and
\* shelf_<name>.mel.deleted exists, also when the .deleted file was already
\* there before the call.
C20_MarksDeleted ==
    (shelf_call.f \in {"delete_shelves", "clib.delete_shelves"}
        /\ shelf_call.names # <<>>)
    => /\ ~shelf_raised
       /\ \A i \in 1..Len(shelf_call.names) :
             ShelfFile(shelf_call.names[i]) \in shelf_call.before
             => /\ ShelfFile(shelf_call.names[i]) \notin shelf_files
                /\ DeletedFile(shelf_call.names[i]) \in shelf_files

(***************************************************************************)
(* install and uninstall (setup.py)                                        *)
(*                                                                         *)
(* One action per call.  module_where is what is_installed_per_user finds  *)
(* in the running host: it changes only when the host is restarted.        *)
(***************************************************************************)
\* the module's .mod files in the all-users module directory
ModFiles == {"2020/coop.mod"}

\* install directories: an absolute one and one relative to the working directory
SetupDirs == {<<"/", "c">>, <<"m">>}

\* env_variables arguments of install: None (the default) or a dict
NoVariables == [none |-> TRUE, value |-> <<>>]
SetupVariableArgs ==
    {NoVariables,
     [none |-> FALSE, value |-> <<>>],
     [none |-> FALSE, value |-> <<[var |-> <<"X">>, values |-> << <<"d">> >>]>>]}

\* the Maya.env files the calls start from
SetupEnvFiles == {
    <<>>,
    << <<"MAYA_MODULE_PATH", "=", "/", "a">> >>,
    << <<"MAYA_SHELF_PATH", "=", "/", "s">> >> }

\* the prefs/shelves directories the calls start from
SetupShelfDirs == {{}, {ShelfFile("Animation")},
                   {ShelfFile("Animation"), DeletedFile("Animation")}}

\* shelves arguments of uninstall
SetupShelves == {<<>>, <<[name |-> "Animation", ext |-> FALSE]>>}

NoSetupCall == [f |-> "none", install_dir |-> <<>>, all_users |-> FALSE,
                env_variables |-> NoVariables,
                reinstall |-> FALSE, background |-> FALSE, per_user |-> FALSE,
                      reply |-> "none", env_before |-> <<>>, tmp_before |-> <<>>,
                      after_install |-> FALSE, env_installed |-> <<>>]

\* setup.py 281-308 after line 294: format, parse, merge, write, move
InstallLocalFile(file, tmp, variables) ==
    LET new == _fmt_variables(variables)
        parsed == _parse_environment_variables(file)
        merged == _merge_variables(new, parsed.vars, parsed.order)
        written == _write_variables(tmp, merged.vars, merged.order)
    IN  [new |-> new, vars |-> written.vars, order |-> written.order,
         warnings |-> parsed.warnings, printed |-> merged.printed,
         file |-> written.file]

RECURSIVE DeleteFrom(_, _, _, _)
\* setup.py 436-440: the loop over the copy var_paths; list.remove takes out
\* the first equal element and raises when there is none; os.path.abspath
\* raises on a value that was stored as an int
DeleteFrom(values, var_paths, i, path_to_delete) ==
    IF i > Len(var_paths) THEN [values |-> values, raised |-> FALSE]
    ELSE IF var_paths[i].int THEN [values |-> values, raised |-> TRUE]
    ELSE IF abspath(path_to_delete) = abspath(var_paths[i].s)
         THEN IF Contains(values, var_paths[i])
              THEN [values |-> RemoveFirst(values, var_paths[i]), raised |-> FALSE]
              ELSE [values |-> values, raised |-> TRUE]
    ELSE DeleteFrom(values, var_paths, i + 1, path_to_delete)

RECURSIVE DeletePaths(_, _, _)
\* setup.py 435-440: for path_to_delete in var_paths_to_delete
DeletePaths(values, var_paths, to_delete) ==
    IF to_delete = <<>> THEN [values |-> values, raised |-> FALSE]
    ELSE LET r == DeleteFrom(values, var_paths, 1, Head(to_delete))
         IN  IF r.raised THEN r
             ELSE DeletePaths(r.values, var_paths, Tail(to_delete))

RECURSIVE _delete_maya_env_vars(_, _)
\* setup.py 421-440
_delete_maya_env_vars(variables, env_vars_to_delete) ==
    IF env_vars_to_delete = <<>> THEN [vars |-> variables, raised |-> FALSE]
    ELSE LET var == Head(env_vars_to_delete).var
         IN  IF var \notin DOMAIN variables
             THEN _delete_maya_env_vars(variables, Tail(env_vars_to_delete))
             ELSE LET r == DeletePaths(variables[var], variables[var],
                                       Head(env_vars_to_delete).values)
                  IN  IF r.raised THEN [vars |-> variables, raised |-> TRUE]
                      ELSE _delete_maya_env_vars(Put(variables, var, r.values),
                                                 Tail(env_vars_to_delete))

\* the values of a variable in a Maya.env file
VarPaths(file, var) ==
    LET parsed == _parse_environment_variables(file)
    IN  IF var \in DOMAIN parsed.vars
        THEN {parsed.vars[var][i].s : i \in 1..Len(parsed.vars[var])}
        ELSE {}

ModulePaths(file) == VarPaths(file, MAYA_MODULE_PATH)

InitSetup ==
    /\ localOS \in {"win", "linux"}
    /\ maya_env \in SetupEnvFiles
    /\ maya_tmp = <<>>
    /\ new_variables = <<>>
    /\ env_variables = EmptyDict
    /\ env_variables_order = <<>>
    /\ warnings = <<>>
    /\ printed = <<>>
    /\ pc = "idle"
    /\ runs = 0
    /\ setup_log = <<>>
    /\ setup_raised = FALSE
    /\ module_where \in {"user", "all"}
    /\ mod_files = (IF module_where = "all" THEN ModFiles ELSE {})
    /\ module_where = "all" => localOS = "win"
    /\ setup_call = NoSetupCall
    /\ shelf_files \in SetupShelfDirs
    /\ shelf_ui = {}
    /\ shelf_raised = FALSE
    /\ shelf_call = NoCall
    /\ IdxAtRest /\ WidAtRest
    /\ LstAtRest /\ MathAtRest /\ StrAtRest /\ SchedAtRest /\ SliderAtRest /\ GroupAtRest
    /\ UndoAtRest

notSetup == <<idxVars, widVars, lstVars, mathVars, strVars, schedVars,
              sliderVars, groupVars, undoVars>>

\* setup.py 20-43 with all_users=False, and _install_local (281-308)
InstallForUser(install_dir, arg) ==
    /\ runs < MaxRuns
    /\ runs' = runs + 1
    /\ setup_call' = [f |-> "install", install_dir |-> install_dir,
                      all_users |-> FALSE, env_variables |-> arg,
                      reinstall |-> FALSE, background |-> FALSE, per_user |-> FALSE,
                      reply |-> "none", env_before |-> maya_env, tmp_before |-> maya_tmp,
                      after_install |-> FALSE, env_installed |-> <<>>]
    /\ IF arg.none
       THEN \* line 291: 'MAYA_MODULE_PATH' in None raises TypeError
            /\ setup_log' = <<"Installing module for current user">>
            /\ setup_raised' = TRUE
            /\ UNCHANGED <<maya_env, maya_tmp, new_variables, env_variables,
                           env_variables_order, warnings, printed>>
       ELSE LET r == InstallLocalFile(maya_env, maya_tmp,
                                      AddModulePath(arg.value, install_dir))
            IN  /\ new_variables' = r.new
                /\ env_variables' = r.vars
                /\ env_variables_order' = r.order
                /\ warnings' = r.warnings
                /\ printed' = r.printed
                /\ maya_env' = r.file
                /\ maya_tmp' = <<>>
                /\ setup_log' = <<"Installing module for current user",
                                  "Installation complete", "restart dialog">>
                /\ setup_raised' = FALSE
    /\ UNCHANGED <<localOS, pc, module_where, mod_files, shelfVars>>
    /\ UNCHANGED notSetup

\* setup.py 20-43 with all_users=True, and _install_all_users (311-346),
\* for the Maya versions of ModFiles
InstallForAll(install_dir) ==
    /\ runs < MaxRuns
    /\ runs' = runs + 1
    /\ setup_call' = [f |-> "install", install_dir |-> install_dir,
                      all_users |-> TRUE, env_variables |-> NoVariables,
                      reinstall |-> FALSE, background |-> FALSE, per_user |-> FALSE,
                      reply |-> "none", env_before |-> maya_env, tmp_before |-> maya_tmp,
                      after_install |-> FALSE, env_installed |-> <<>>]
    /\ IF localOS = "win"
       THEN /\ mod_files' = mod_files \cup ModFiles
            /\ setup_log' = <<"Installing module for all users",
                              "Installation finished",
                              "Installation complete", "restart dialog">>
            /\ setup_raised' = FALSE
       ELSE \* line 344: print_error(..., True) raises RuntimeError
            /\ setup_log' = <<"Installing module for all users",
                              "OS is not supported yet">>
            /\ setup_raised' = TRUE
            /\ UNCHANGED mod_files
    /\ UNCHANGED <<localOS, maya_env, maya_tmp, new_variables, env_variables,
                   env_variables_order, warnings, printed, pc, module_where,
                   shelfVars>>
    /\ UNCHANGED notSetup

\* setup.py 90-101: the end of uninstall, after the module was removed
UninstallEnd(log, reinstall, shelves, background) ==
    LET names == format_shelves(shelves)
        marked == IF ~reinstall /\ shelves # <<>>
                  THEN MarkDeleted(saveAllShelves(shelf_files, shelf_ui), names)
                  ELSE [files |-> shelf_files, raised |-> FALSE]
    IN  /\ IF ~reinstall /\ shelves # <<>>
           THEN /\ shelf_ui' = shelf_ui \ {names[i] : i \in 1..Len(names)}
                /\ shelf_call' = [f |-> "delete_shelves", names |-> names,
                                  before |-> shelf_files, dialog |-> FALSE]
           ELSE UNCHANGED <<shelf_ui, shelf_call>>
        /\ shelf_files' = marked.files
        /\ shelf_raised' = marked.raised
        /\ setup_raised' = marked.raised
        /\ setup_log' =
              IF marked.raised THEN log
              ELSE log
                   \o (IF ~reinstall /\ ~background THEN <<"restart dialog">> ELSE <<>>)
                   \o <<"custom_uninstall_func", "successfully uninstalled">>

\* setup.py 59-80: parse, delete install_dir from MAYA_MODULE_PATH, write, move
UninstallLocalFile(file, tmp, install_dir) ==
    LET parsed == _parse_environment_variables(file)
        cleaned == _delete_maya_env_vars(parsed.vars,
                      <<[var |-> MAYA_MODULE_PATH, values |-> <<install_dir>>]>>)
        written == _write_variables(tmp, cleaned.vars, parsed.order)
    IN  IF cleaned.raised
        THEN [raised |-> TRUE, vars |-> parsed.vars, order |-> parsed.order,
              warnings |-> parsed.warnings, file |-> file]
        ELSE [raised |-> FALSE, vars |-> written.vars, order |-> written.order,
              warnings |-> parsed.warnings, file |-> written.file]

\* the call before this one installed install_dir for the current user,
\* with no extra variables
InstalledForUser(install_dir) ==
    /\ setup_call.f = "install"
    /\ ~setup_call.all_users
    /\ ~setup_raised
    /\ setup_call.install_dir = install_dir
    /\ setup_call.env_variables.value = <<>>

\* a dialog whose answer is never taken as "No"
NeverNo(reply) == FALSE

\* setup.py 86: reply == "No"
SaysNo(reply) == reply = "No"

\* setup.py 46-101; reply is the button pressed if the dialog is shown; a
\* custom_uninstall_func is given
Uninstall(install_dir, reinstall, shelves, background, reply) ==
    /\ runs < MaxRuns
    /\ runs' = runs + 1
    /\ setup_call' = [f |-> "uninstall", install_dir |-> install_dir,
                      all_users |-> FALSE, env_variables |-> NoVariables,
                      reinstall |-> reinstall, background |-> background,
                      per_user |-> module_where = "user",
                      reply |-> IF module_where # "user" /\ ~reinstall /\ ~background
                                THEN reply ELSE "none",
                      env_before |-> maya_env, tmp_before |-> maya_tmp,
                      after_install |-> InstalledForUser(install_dir),
                      env_installed |-> IF InstalledForUser(install_dir)
                                        THEN setup_call.env_before ELSE <<>>]
    /\ IF module_where = "user"
       THEN LET r == UninstallLocalFile(maya_env, maya_tmp, install_dir)
            IN  IF r.raised
                THEN /\ setup_raised' = TRUE
                     /\ setup_log' = <<>>
                     /\ env_variables' = r.vars
                     /\ env_variables_order' = r.order
                     /\ warnings' = r.warnings
                     /\ UNCHANGED <<maya_env, maya_tmp, mod_files, shelfVars>>
                ELSE /\ env_variables' = r.vars
                     /\ env_variables_order' = r.order
                     /\ warnings' = r.warnings
                     /\ maya_env' = r.file
                     /\ maya_tmp' = <<>>
                     /\ UNCHANGED mod_files
                     /\ UninstallEnd(<<>>, reinstall, shelves, background)
       ELSE IF ~reinstall /\ ~background
       THEN IF SaysNo(reply)
            THEN /\ setup_log' = <<"confirm dialog", "Nothing will be uninstalled">>
                 /\ setup_raised' = FALSE
                 /\ UNCHANGED <<maya_env, maya_tmp, env_variables,
                                env_variables_order, warnings, mod_files, shelfVars>>
            ELSE \* _uninstall_all_users (349-363)
                 /\ mod_files' = {}
                 /\ UNCHANGED <<maya_env, maya_tmp, env_variables,
                                env_variables_order, warnings>>
                 /\ UninstallEnd(<<"confirm dialog">>, reinstall, shelves, background)
       ELSE /\ UNCHANGED <<maya_env, maya_tmp, env_variables,
                           env_variables_order, warnings, mod_files>>
            /\ UninstallEnd(<<>>, reinstall, shelves, background)
    /\ UNCHANGED <<localOS, new_variables, printed, pc, module_where>>
    /\ UNCHANGED notSetup

\* the host is restarted and loads the module from where it is installed now
HostRestarts ==
    /\ runs < MaxRuns
    /\ \/ /\ mod_files # {}
          /\ module_where' = "all"
       \/ /\ ModulePaths(maya_env) # {}
          /\ module_where' = "user"
    /\ module_where' # module_where
    /\ UNCHANGED <<localOS, maya_env, maya_tmp, new_variables, env_variables,
                   env_variables_order, warnings, printed, pc, runs,
                   setup_log, setup_raised, mod_files, setup_call, shelfVars>>
    /\ UNCHANGED notSetup

InstallsForUser ==
    \E install_dir \in SetupDirs, arg \in SetupVariableArgs :
        InstallForUser(install_dir, arg)

InstallsForAll == \E install_dir \in SetupDirs : InstallForAll(install_dir)

Uninstalls ==
    \E install_dir \in SetupDirs, reinstall \in BOOLEAN, shelves \in SetupShelves,
       background \in BOOLEAN, reply \in {"Yes", "No"} :
        \* the dialog is shown only in this case: one reply stands for both otherwise
        /\ (module_where = "user" \/ reinstall \/ background) => reply = "Yes"
        /\ Uninstall(install_dir, reinstall, shelves, background, reply)

NextSetup == InstallsForUser \/ InstallsForAll \/ Uninstalls \/ HostRestarts

SpecSetup == InitSetup /\ [][NextSetup]_vars

(***************************************************************************)
(* Installs and uninstalls for the current user in a row (setup.py), from  *)
(* any Maya.env of EnvFiles and with a maya.tmp an earlier run may have    *)
(* left behind                                                             *)
(***************************************************************************)
\* install directories: one that EnvLines already lists and a relative one
ReinstallDirs == {<<"/", "a">>, <<"m">>}

InitReinstall ==
    /\ localOS \in {"win", "linux"}
    /\ maya_env \in EnvFiles
    /\ maya_tmp \in StaleTmp
    /\ new_variables = <<>>
    /\ env_variables = EmptyDict
    /\ env_variables_order = <<>>
    /\ warnings = <<>>
    /\ printed = <<>>
    /\ pc = "idle"
    /\ runs = 0
    /\ setup_log = <<>>
    /\ setup_raised = FALSE
    /\ module_where = "user"
    /\ mod_files = {}
    /\ setup_call = NoSetupCall
    /\ ShelfAtRest
    /\ IdxAtRest /\ WidAtRest
    /\ LstAtRest /\ MathAtRest /\ StrAtRest /\ SchedAtRest /\ SliderAtRest /\ GroupAtRest
    /\ UndoAtRest

ReinstallsForUser ==
    \E install_dir \in ReinstallDirs, arg \in SetupVariableArgs :
        InstallForUser(install_dir, arg)

\* uninstall(install_dir, module_name, reinstall, background=True)
UninstallsForUser ==
    \E install_dir \in ReinstallDirs, reinstall \in BOOLEAN :
        Uninstall(install_dir, reinstall, <<>>, TRUE, "Yes")

NextReinstall == ReinstallsForUser \/ UninstallsForUser

SpecReinstall == InitReinstall /\ [][NextReinstall]_vars

(***************************************************************************)
(* Claims about install and uninstall                                      *)
(***************************************************************************)
\* C17: after install(install_dir, all_users=False, env_variables=...) with
\* any allowed env_variables, the default None included, the call has not
\* raised, the rewritten Maya.env holds the absolute install_dir under
\* MAYA_MODULE_PATH and the absolute value of every extra variable under
\* its name, and "Installation complete" was displayed.
C17_InstallForUser ==
    (setup_call.f = "install" /\ ~setup_call.all_users)
    => /\ ~setup_raised
       /\ Contains(setup_log, "Installation complete")
       /\ abspath(setup_call.install_dir) \in ModulePaths(maya_env)
       /\ \A i \in 1..Len(setup_call.env_variables.value) :
             \A j \in 1..Len(setup_call.env_variables.value[i].values) :
                abspath(setup_call.env_variables.value[i].values[j])
                   \in VarPaths(maya_env, setup_call.env_variables.value[i].var)

\* C18: uninstall(background=True) shows no dialog, and when it reports
\* "<module> successfully uninstalled" the module was removed from where it
\* was installed: install_dir is no longer a MAYA_MODULE_PATH value of
\* Maya.env (installed per user), or the module's .mod files are gone from
\* the all-users module directory (installed for all users).
C18_BackgroundUninstall ==
    (setup_call.f = "uninstall" /\ setup_call.background)
    => /\ ~Contains(setup_log, "confirm dialog")
       /\ ~Contains(setup_log, "restart dialog")
       /\ Contains(setup_log, "successfully uninstalled")
          => IF setup_call.per_user
             THEN abspath(setup_call.install_dir) \notin ModulePaths(maya_env)
             ELSE mod_files = {}

\* C24: when the module is not installed per user and the user answers "No"
\* to the confirm dialog, uninstall changes nothing: the .mod files, Maya.env
\* and maya.tmp, the shelf files and the shelf layouts are as before, no
\* restart dialog is shown, custom_uninstall_func is not called, and the
\* call does not raise.
C24_NoChangesNothing ==
    [][(runs' # runs /\ setup_call'.f = "uninstall" /\ setup_call'.reply = "No") =>
        /\ mod_files' = mod_files
        /\ maya_env' = maya_env
        /\ maya_tmp' = maya_tmp
        /\ shelf_files' = shelf_files
        /\ shelf_ui' = shelf_ui
        /\ ~Contains(setup_log', "restart dialog")
        /\ ~Contains(setup_log', "custom_uninstall_func")
        /\ ~Contains(setup_log', "successfully uninstalled")
        /\ ~setup_raised'
    ]_vars

\* an all-users install with a shelf file, and "No" was answered
C24_Witness ==
    /\ setup_call.f = "uninstall"
    /\ setup_call.reply = "No"
    /\ ~setup_call.per_user /\ ~setup_call.background /\ ~setup_call.reinstall
    /\ setup_log = <<"confirm dialog", "Nothing will be uninstalled">>
    /\ mod_files = ModFiles
    /\ shelf_files = {ShelfFile("Animation")}

\* the environment variable table of a Maya.env file
TableOf(file) ==
    LET parsed == _parse_environment_variables(file)
    IN  [vars |-> parsed.vars, order |-> parsed.order]

\* C25: after install(install_dir, env_variables={}) for the current user directly followed
\* by uninstall(install_dir), the table of Maya.env is the table it had
\* before the install: MAYA_MODULE_PATH with the same values in the same
\* order (or absent again), every other variable with its values and at its
\* position.
C25_InstallUninstallRestores ==
    (setup_call.f = "uninstall" /\ setup_call.per_user /\ setup_call.after_install
        /\ ~setup_raised)
    => TableOf(maya_env) = TableOf(setup_call.env_installed)

\* the last call has rewritten Maya.env
Rewritten ==
    /\ ~setup_raised
    /\ \/ setup_call.f = "install" /\ ~setup_call.all_users
       \/ setup_call.f = "uninstall" /\ setup_call.per_user

\* C26: after install or uninstall has rewritten Maya.env, no two lines of
\* the file carry the same variable name, whatever the file held before.
C26_OneLinePerVariable ==
    Rewritten =>
       \A i, j \in 1..Len(maya_env) :
          LineKey(maya_env[i]) = LineKey(maya_env[j]) => i = j

\* what the last call writes when no maya.tmp is left over from before
SerializedTable ==
    IF setup_call.f = "install"
    THEN InstallLocalFile(setup_call.env_before, <<>>,
                          AddModulePath(setup_call.env_variables.value,
                                        setup_call.install_dir)).file
    ELSE UninstallLocalFile(setup_call.env_before, <<>>, setup_call.install_dir).file

\* C27: the Maya.env that install or uninstall puts in place holds exactly
\* the lines serialized from the variable table of that call, and nothing of
\* a maya.tmp that was there before the call.
C27_NoStaleTmp == Rewritten => maya_env = SerializedTable

====
